---- MODULE Spec2Model ----
(***************************************************************************)
(* Ogex: AST -> NFA compiler (Thompson construction with capture and       *)
(* backreference transitions), the NFA simulator behind Regex::find and    *)
(* Regex::find_all, and the group registry.                                *)
(*                                                                         *)
(* Positions are 0-based as in the source; TLA+ sequences are 1-based, so  *)
(* input_chars[i] of the source is input[i + 1] here and NFA state id s is *)
(* entry s + 1 of nfa.states.                                              *)
(***************************************************************************)
EXTENDS Integers, Sequences, FiniteSets, TLC

VARIABLES
    repl,           \* the Replacement parsed and the arguments of its last application
    pattern_arg,    \* the pattern of the last Regex::new or transpile call (sequence of chars)
    nfa,            \* Regex.nfa: the compiled automaton, or NoNfa before Regex::new
    ast,            \* the expression Regex::new compiled
    input,          \* the input of the running find / find_all call (sequence of chars)
    op,             \* the running call: "none", "find" or "find_all"
    pc,             \* position in the running call
    scan,           \* find: loop variable start; find_all: local pos
    matches,        \* find_all: the local vector matches
    result,         \* find: the returned Option<Match>
    sim,            \* NfaSimulator::run locals: start_pos, pos, current_states, last_accept
    registry,       \* a GroupRegistry
    resolved        \* outcome of the last relative-backreference resolution

vars == <<repl, pattern_arg, nfa, ast, input, op, pc, scan, matches, result, sim, registry,
          resolved>>

(***************************************************************************)
(* Bounds of the model.                                                    *)
(***************************************************************************)
MaxLen == 3
MaxMatches == 4
MaxRegistered == 3
MaxGroups == 2

None == [none |-> TRUE]

(***************************************************************************)
(* Generic helpers.                                                        *)
(***************************************************************************)
Max(x, y) == IF x >= y THEN x ELSE y

Front(s) == SubSeq(s, 1, Len(s) - 1)

Last(s) == s[Len(s)]

RECURSIVE SeqsUpTo(_, _)
SeqsUpTo(S, n) ==
    IF n = 0 THEN {<<>>}
    ELSE LET shorter == SeqsUpTo(S, n - 1)
         IN  shorter \cup {Append(s, x) : s \in {t \in shorter : Len(t) = n - 1}, x \in S}

\* HashMap::insert
MapPut(m, k, v) == [x \in (DOMAIN m) \cup {k} |-> IF x = k THEN v ELSE m[x]]

EmptyMap == [x \in {} |-> <<0, 0>>]

(***************************************************************************)
(* ast.rs: Expr and Quantifier.                                            *)
(***************************************************************************)
Empty == [t |-> "Empty"]
Literal(c) == [t |-> "Literal", c |-> c]
AnyExpr == [t |-> "Any"]
Sequence(exprs) == [t |-> "Sequence", exprs |-> exprs]
Alternation(exprs) == [t |-> "Alternation", exprs |-> exprs]
Quantified(e, q) == [t |-> "Quantified", expr |-> e, quantifier |-> q]
Group(e) == [t |-> "Group", expr |-> e]
NonCapturingGroup(e) == [t |-> "NonCapturingGroup", expr |-> e]
NamedGroup(name, e) == [t |-> "NamedGroup", name |-> name, expr |-> e]
StartAnchor == [t |-> "StartAnchor"]
EndAnchor == [t |-> "EndAnchor"]
Backreference(n) == [t |-> "Backreference", n |-> n]
RelativeBackreference(n) == [t |-> "RelativeBackreference", n |-> n]
NamedBackreference(name) == [t |-> "NamedBackreference", name |-> name]

\* ClassItem and Expr::CharacterClass
ClassItemChar(c) == [i |-> "Char", c |-> c, e |-> c]
ClassItemRange(start, end) == [i |-> "Range", c |-> start, e |-> end]
ClassItemShorthand(c) == [i |-> "Shorthand", c |-> c, e |-> c]
CharacterClass(negated, items) == [t |-> "CharacterClass", negated |-> negated, items |-> items]

ZeroOrMore == [q |-> "ZeroOrMore", n |-> 0, m |-> 0]
ZeroOrMoreLazy == [q |-> "ZeroOrMoreLazy", n |-> 0, m |-> 0]
OneOrMore == [q |-> "OneOrMore", n |-> 0, m |-> 0]
OneOrMoreLazy == [q |-> "OneOrMoreLazy", n |-> 0, m |-> 0]
Optional == [q |-> "Optional", n |-> 0, m |-> 0]
Exactly(n) == [q |-> "Exactly", n |-> n, m |-> 0]
AtLeast(n) == [q |-> "AtLeast", n |-> n, m |-> 0]
AtLeastLazy(n) == [q |-> "AtLeastLazy", n |-> n, m |-> 0]
Between(n, m) == [q |-> "Between", n |-> n, m |-> m]
BetweenLazy(n, m) == [q |-> "BetweenLazy", n |-> n, m |-> m]

(***************************************************************************)
(* nfa.rs: Transition, Nfa and the Thompson construction.                  *)
(***************************************************************************)
Transition(k, c, n) == [k |-> k, c |-> c, n |-> n]
TChar(c) == Transition("Char", c, 0)
TAny == Transition("Any", "", 0)
TCharClass(negated, items) ==
    [k |-> "CharClass", c |-> "", n |-> 0, negated |-> negated, items |-> items]
TEpsilon == Transition("Epsilon", "", 0)
TGroupStart(g) == Transition("GroupStart", "", g)
TGroupEnd(g) == Transition("GroupEnd", "", g)
TBackref(g) == Transition("Backref", "", g)
TBackrefRelative(r) == Transition("BackrefRelative", "", r)
TStartAnchor == Transition("StartAnchor", "", 0)
TEndAnchor == Transition("EndAnchor", "", 0)

NoNfa == [none |-> TRUE]

\* Nfa::new
NfaNew ==
    [states |-> <<>>, start |-> 0, accept |-> 0, next_state_id |-> 0,
     next_group_id |-> 1, named_groups |-> {}, numbered_groups |-> <<>>]

\* Nfa::new_state: the automaton with one more state, and that state's id
new_state(n) ==
    [nfa |-> [n EXCEPT !.next_state_id = @ + 1, !.states = Append(@, <<>>)],
     id |-> n.next_state_id]

\* Nfa::add_transition
add_transition(n, from, transition, to) ==
    [n EXCEPT !.states[from + 1] = Append(@, [tr |-> transition, to |-> to])]

\* (start, accept) of a compiled fragment, with the automaton after compiling it
Frag(n, s, a) == [nfa |-> n, s |-> s, a |-> a]

\* the shape shared by compile_empty, compile_char, compile_any, the anchors and
\* the backreferences: two fresh states joined by one transition
compile_atom(n, transition) ==
    LET s1 == new_state(n)
        s2 == new_state(s1.nfa)
    IN  Frag(add_transition(s2.nfa, s1.id, transition, s2.id), s1.id, s2.id)

compile_empty(n) == compile_atom(n, TEpsilon)
compile_char(n, c) == compile_atom(n, TChar(c))
compile_any(n) == compile_atom(n, TAny)
compile_char_class(n, negated, items) == compile_atom(n, TCharClass(negated, items))
compile_start_anchor(n) == compile_atom(n, TStartAnchor)
compile_end_anchor(n) == compile_atom(n, TEndAnchor)
compile_backref(n, g) == compile_atom(n, TBackref(g))
compile_backref_relative(n, r) == compile_atom(n, TBackrefRelative(r))

\* HashMap<String, u32> as a set of <<name, id>> pairs with one pair per name
NamedInsert(named, name, id) == {p \in named : p[1] # name} \cup {<<name, id>>}
NamedHas(named, name) == \E p \in named : p[1] = name
NamedGet(named, name) == (CHOOSE p \in named : p[1] = name)[2]

RECURSIVE compile_expr(_, _)
RECURSIVE compile_sequence_loop(_, _, _, _, _)
RECURSIVE compile_alternation_loop(_, _, _, _, _)
RECURSIVE compile_repeat_exact_loop(_, _, _, _, _, _)
RECURSIVE compile_repeat_between_loop(_, _, _, _, _, _)
RECURSIVE compile_quantified(_, _, _)

\* the for loop of compile_sequence; start and prev_accept are -1 for None
compile_sequence_loop(n, exprs, i, start, prev_accept) ==
    IF i > Len(exprs) THEN Frag(n, start, prev_accept)
    ELSE LET f == compile_expr(n, exprs[i])
             n2 == IF prev_accept # -1
                   THEN add_transition(f.nfa, prev_accept, TEpsilon, f.s)
                   ELSE f.nfa
         IN  compile_sequence_loop(n2, exprs, i + 1,
                                   IF start = -1 THEN f.s ELSE start, f.a)

compile_sequence(n, exprs) ==
    IF Len(exprs) = 0 THEN compile_empty(n)
    ELSE compile_sequence_loop(n, exprs, 1, -1, -1)

\* the for loop of compile_alternation
compile_alternation_loop(n, exprs, i, start, accept) ==
    IF i > Len(exprs) THEN Frag(n, start, accept)
    ELSE LET f == compile_expr(n, exprs[i])
             n2 == add_transition(f.nfa, start, TEpsilon, f.s)
             n3 == add_transition(n2, f.a, TEpsilon, accept)
         IN  compile_alternation_loop(n3, exprs, i + 1, start, accept)

compile_alternation(n, exprs) ==
    IF Len(exprs) = 0 THEN compile_empty(n)
    ELSE IF Len(exprs) = 1 THEN compile_expr(n, exprs[1])
    ELSE LET s1 == new_state(n)
             s2 == new_state(s1.nfa)
         IN  compile_alternation_loop(s2.nfa, exprs, 1, s1.id, s2.id)

\* the for loop of compile_repeat_exact: k copies still to compile
compile_repeat_exact_loop(n, expr, k, start, prev_accept, first) ==
    IF k = 0 THEN Frag(n, start, prev_accept)
    ELSE LET f == compile_expr(n, expr)
             n2 == IF ~first
                   THEN add_transition(f.nfa, prev_accept, TEpsilon, f.s)
                   ELSE f.nfa
         IN  compile_repeat_exact_loop(n2, expr, k - 1,
                                       IF first THEN f.s ELSE start, f.a, FALSE)

compile_repeat_exact(n, expr, k) ==
    IF k = 0 THEN compile_empty(n)
    ELSE IF k = 1 THEN compile_expr(n, expr)
    ELSE compile_repeat_exact_loop(n, expr, k, -1, -1, TRUE)

compile_repeat_at_least(n, expr, k) ==
    LET exact == compile_repeat_exact(n, expr, k)
        star == compile_quantified(exact.nfa, expr, ZeroOrMore)
    IN  Frag(add_transition(star.nfa, exact.a, TEpsilon, star.s), exact.s, star.a)

compile_repeat_at_least_lazy(n, expr, k) ==
    LET exact == compile_repeat_exact(n, expr, k)
        star == compile_quantified(exact.nfa, expr, ZeroOrMoreLazy)
    IN  Frag(add_transition(star.nfa, exact.a, TEpsilon, star.s), exact.s, star.a)

\* the for loop of compile_repeat_between and compile_repeat_between_lazy:
\* k optional copies still to compile
compile_repeat_between_loop(n, expr, k, prev_accept, accept, lazy) ==
    IF k = 0 THEN [nfa |-> n, prev_accept |-> prev_accept]
    ELSE LET f == compile_expr(n, expr)
             n2 == IF lazy
                   THEN add_transition(
                            add_transition(f.nfa, prev_accept, TEpsilon, accept),
                            prev_accept, TEpsilon, f.s)
                   ELSE add_transition(
                            add_transition(f.nfa, prev_accept, TEpsilon, f.s),
                            prev_accept, TEpsilon, accept)
         IN  compile_repeat_between_loop(n2, expr, k - 1, f.a, accept, lazy)

compile_repeat_between_any(n, expr, lo, hi, lazy) ==
    IF lo = hi THEN compile_repeat_exact(n, expr, lo)
    ELSE LET exact == compile_repeat_exact(n, expr, lo)
             s1 == new_state(exact.nfa)
             s2 == new_state(s1.nfa)
             n1 == add_transition(s2.nfa, s1.id, TEpsilon, exact.s)
             l == compile_repeat_between_loop(n1, expr, hi - lo, exact.a, s2.id, lazy)
         IN  Frag(add_transition(l.nfa, l.prev_accept, TEpsilon, s2.id), s1.id, s2.id)

compile_repeat_between(n, expr, lo, hi) ==
    compile_repeat_between_any(n, expr, lo, hi, FALSE)

compile_repeat_between_lazy(n, expr, lo, hi) ==
    compile_repeat_between_any(n, expr, lo, hi, TRUE)

\* the inner expression is compiled before the quantifier is looked at, so the
\* counted quantifiers, which return a fragment of their own, compile it once more
compile_quantified(n, expr, quantifier) ==
    LET inner == compile_expr(n, expr)
        s1 == new_state(inner.nfa)
        s2 == new_state(s1.nfa)
        m == s2.nfa
        start == s1.id
        accept == s2.id
        q == quantifier.q
    IN  CASE q = "ZeroOrMore" ->
               Frag(add_transition(add_transition(add_transition(add_transition(m,
                        start, TEpsilon, inner.s),
                        start, TEpsilon, accept),
                        inner.a, TEpsilon, inner.s),
                        inner.a, TEpsilon, accept), start, accept)
          [] q = "ZeroOrMoreLazy" ->
               Frag(add_transition(add_transition(add_transition(add_transition(m,
                        start, TEpsilon, accept),
                        start, TEpsilon, inner.s),
                        inner.a, TEpsilon, accept),
                        inner.a, TEpsilon, inner.s), start, accept)
          [] q = "OneOrMore" ->
               Frag(add_transition(add_transition(add_transition(m,
                        start, TEpsilon, inner.s),
                        inner.a, TEpsilon, inner.s),
                        inner.a, TEpsilon, accept), start, accept)
          [] q = "OneOrMoreLazy" ->
               Frag(add_transition(add_transition(add_transition(m,
                        start, TEpsilon, inner.s),
                        inner.a, TEpsilon, accept),
                        inner.a, TEpsilon, inner.s), start, accept)
          [] q = "Optional" ->
               Frag(add_transition(add_transition(add_transition(m,
                        start, TEpsilon, inner.s),
                        start, TEpsilon, accept),
                        inner.a, TEpsilon, accept), start, accept)
          [] q = "Exactly" -> compile_repeat_exact(m, expr, quantifier.n)
          [] q = "AtLeast" -> compile_repeat_at_least(m, expr, quantifier.n)
          [] q = "AtLeastLazy" -> compile_repeat_at_least_lazy(m, expr, quantifier.n)
          [] q = "Between" -> compile_repeat_between(m, expr, quantifier.n, quantifier.m)
          [] q = "BetweenLazy" ->
               compile_repeat_between_lazy(m, expr, quantifier.n, quantifier.m)

\* name is an Option<String>: <<>> for None, <<s>> for Some(s)
compile_group(n, expr, name) ==
    LET group_id == n.next_group_id
        n1 == [n EXCEPT !.next_group_id = @ + 1]
        n2 == IF name # <<>>
              THEN [n1 EXCEPT !.named_groups = NamedInsert(@, name[1], group_id)]
              ELSE [n1 EXCEPT !.numbered_groups = Append(@, group_id)]
        s1 == new_state(n2)
        inner == compile_expr(s1.nfa, expr)
        s2 == new_state(inner.nfa)
        n3 == add_transition(s2.nfa, s1.id, TGroupStart(group_id), inner.s)
        n4 == add_transition(n3, inner.a, TGroupEnd(group_id), s2.id)
    IN  Frag(n4, s1.id, s2.id)

compile_expr(n, expr) ==
    CASE expr.t = "Empty" -> compile_empty(n)
      [] expr.t = "Literal" -> compile_char(n, expr.c)
      [] expr.t = "Any" -> compile_any(n)
      [] expr.t = "Sequence" -> compile_sequence(n, expr.exprs)
      [] expr.t = "Alternation" -> compile_alternation(n, expr.exprs)
      [] expr.t = "CharacterClass" -> compile_char_class(n, expr.negated, expr.items)
      [] expr.t = "Quantified" -> compile_quantified(n, expr.expr, expr.quantifier)
      [] expr.t = "Group" -> compile_group(n, expr.expr, <<>>)
      [] expr.t = "NonCapturingGroup" -> compile_expr(n, expr.expr)
      [] expr.t = "NamedGroup" -> compile_group(n, expr.expr, <<expr.name>>)
      [] expr.t = "StartAnchor" -> compile_start_anchor(n)
      [] expr.t = "EndAnchor" -> compile_end_anchor(n)
      [] expr.t = "Backreference" -> compile_backref(n, expr.n)
      [] expr.t = "RelativeBackreference" -> compile_backref_relative(n, expr.n)
      [] expr.t = "NamedBackreference" ->
           IF NamedHas(n.named_groups, expr.name)
           THEN compile_backref(n, NamedGet(n.named_groups, expr.name))
           ELSE compile_backref(n, 0)
      [] OTHER -> compile_empty(n)

\* Nfa::from_expr
from_expr(expr) ==
    LET f == compile_expr(NfaNew, expr)
    IN  [f.nfa EXCEPT !.start = f.s, !.accept = f.a]

(***************************************************************************)
(* engine.rs: ModeFlags, Match, SimState and NfaSimulator.                 *)
(***************************************************************************)
\* ModeFlags::default(): nothing under src/ sets a flag on a compiled Nfa
mode_flags == [case_insensitive |-> FALSE, multiline |-> FALSE, dotall |-> FALSE]

\* chars whose UTF-8 encoding takes two bytes; every other char of the model is ASCII
TwoByteChars == {"é"}

Utf8Len(c) == IF c \in TwoByteChars THEN 2 ELSE 1

\* str::len and String::len: the length in bytes
RECURSIVE ByteLen(_)
ByteLen(chars) == IF chars = <<>> THEN 0 ELSE Utf8Len(chars[1]) + ByteLen(Tail(chars))

\* char::to_ascii_lowercase on the chars of the model
to_ascii_lowercase(c) == CASE c = "A" -> "a" [] c = "B" -> "b" [] OTHER -> c

\* SimState::with_groups
SimState(state_id, groups) == [state_id |-> state_id, groups |-> groups]

\* SimState::new
SimStateNew(state_id) == SimState(state_id, EmptyMap)

StateIds(states) == {states[i].state_id : i \in 1..Len(states)}

\* &input_chars[from..to] for from <= to <= len
Slice(chars, from, to) == SubSeq(chars, from + 1, to)

\* str::starts_with
starts_with(text, prefix) ==
    /\ Len(prefix) <= Len(text)
    /\ SubSeq(text, 1, Len(prefix)) = prefix

\* the arms of epsilon_closure with both anchors passed wherever they are met
closure_push_unanchored(inp, start_pos, pos, sim_state, transition, target) ==
    LET same == <<SimState(target, sim_state.groups)>>
        k == transition.k
    IN  CASE k \in {"Epsilon", "StartAnchor", "EndAnchor"} -> same
          [] k = "GroupStart" ->
               <<SimState(target, MapPut(sim_state.groups, transition.n, <<pos, pos>>))>>
          [] k = "GroupEnd" ->
               IF transition.n \in DOMAIN sim_state.groups
               THEN <<SimState(target,
                               MapPut(sim_state.groups, transition.n,
                                      <<sim_state.groups[transition.n][1], pos>>))>>
               ELSE same
          [] OTHER -> <<>>

\* one arm of the match in epsilon_closure: the states the transition pushes
closure_push(inp, start_pos, pos, sim_state, transition, target) ==
    LET same == <<SimState(target, sim_state.groups)>>
        k == transition.k
    IN  CASE k = "Epsilon" -> same
          [] k = "StartAnchor" ->
               IF mode_flags.multiline
               THEN IF pos = start_pos \/ (pos > 0 /\ pos - 1 < Len(inp) /\ inp[pos] = "\n")
                    THEN same ELSE <<>>
               ELSE IF start_pos = 0 /\ pos = start_pos THEN same ELSE <<>>
          [] k = "EndAnchor" ->
               IF mode_flags.multiline
               THEN IF pos = Len(inp) \/ (pos < Len(inp) /\ inp[pos + 1] = "\n")
                    THEN same ELSE <<>>
               ELSE IF pos = Len(inp) THEN same ELSE <<>>
          [] k = "GroupStart" ->
               <<SimState(target, MapPut(sim_state.groups, transition.n, <<pos, pos>>))>>
          [] k = "GroupEnd" ->
               IF transition.n \in DOMAIN sim_state.groups
               THEN <<SimState(target,
                               MapPut(sim_state.groups, transition.n,
                                      <<sim_state.groups[transition.n][1], pos>>))>>
               ELSE same
          [] OTHER -> <<>>

\* the for loop of epsilon_closure over the transitions of sim_state, from the
\* i-th on: what it pushes on the stack, in order
RECURSIVE closure_pushes(_, _, _, _, _, _, _)
closure_pushes(n, inp, start_pos, pos, sim_state, seen, i) ==
    LET trs == n.states[sim_state.state_id + 1]
    IN  IF i > Len(trs) THEN <<>>
        ELSE (IF trs[i].to \in seen THEN <<>>
              ELSE closure_push(inp, start_pos, pos, sim_state, trs[i].tr, trs[i].to))
             \o closure_pushes(n, inp, start_pos, pos, sim_state, seen, i + 1)

\* the while loop without its test of the popped state against the closure
RECURSIVE closure_loop_unchecked(_, _, _, _, _, _)
closure_loop_unchecked(n, inp, start_pos, pos, closure, stack) ==
    IF stack = <<>> THEN closure
    ELSE LET sim_state == Last(stack)
             closure2 == Append(closure, sim_state)
         IN  closure_loop_unchecked(n, inp, start_pos, pos, closure2,
                                    Front(stack) \o closure_pushes(n, inp, start_pos, pos,
                                                                   sim_state,
                                                                   StateIds(closure2), 1))

\* the while loop of epsilon_closure: stack.pop() takes the last element
RECURSIVE closure_loop(_, _, _, _, _, _)
closure_loop(n, inp, start_pos, pos, closure, stack) ==
    IF stack = <<>> THEN closure
    ELSE LET sim_state == Last(stack)
             rest == Front(stack)
         IN  IF sim_state.state_id \in StateIds(closure)
             THEN closure_loop(n, inp, start_pos, pos, closure, rest)
             ELSE LET closure2 == Append(closure, sim_state)
                  IN  closure_loop(n, inp, start_pos, pos, closure2,
                                   rest \o closure_pushes(n, inp, start_pos, pos, sim_state,
                                                          StateIds(closure2), 1))

epsilon_closure(n, inp, start_pos, states, pos) ==
    closure_loop(n, inp, start_pos, pos, <<>>, states)

\* Nfa::resolve_relative
resolve_relative(n, relative) ==
    IF relative >= 0 THEN None
    ELSE LET reverse_index == -relative
         IN  IF reverse_index = 0 \/ reverse_index > Len(n.numbered_groups) THEN None
             ELSE [some |-> n.numbered_groups[Len(n.numbered_groups) - reverse_index + 1]]

\* the chars of the model in the order of their code points
CharOrder ==
    <<"\t", "\n", " ", "-", "0", "1", "2", "3", "4", "5", "6", "7", "8", "9",
      "A", "B", "_", "a", "b", "g", "x", "é">>

CharCode(c) == CHOOSE i \in 1..Len(CharOrder) : CharOrder[i] = c

\* char::is_ascii_digit, is_ascii_alphanumeric and is_ascii_whitespace on the
\* chars of the model
IsAsciiDigit(c) == CharCode(c) \in CharCode("0")..CharCode("9")
IsAsciiAlphanumeric(c) == IsAsciiDigit(c) \/ c \in {"A", "B", "a", "b", "g", "x"}
IsAsciiWhitespace(c) == c \in {"\t", "\n", " "}

\* the closure of try_transition that tests one ClassItem against c
class_item_matches(item, c) ==
    CASE item.i = "Char" -> item.c = c
      [] item.i = "Range" -> CharCode(item.c) <= CharCode(c) /\ CharCode(c) <= CharCode(item.e)
      [] item.i = "Shorthand" ->
           CASE item.c = "d" -> IsAsciiDigit(c)
             [] item.c = "D" -> ~IsAsciiDigit(c)
             [] item.c = "w" -> IsAsciiAlphanumeric(c) \/ c = "_"
             [] item.c = "W" -> ~(IsAsciiAlphanumeric(c) \/ c = "_")
             [] item.c = "s" -> IsAsciiWhitespace(c)
             [] item.c = "S" -> ~IsAsciiWhitespace(c)
             [] OTHER -> FALSE

\* NfaSimulator::try_transition
try_transition(sim_state, transition, target, c) ==
    LET hit == CASE transition.k = "Char" ->
                      IF mode_flags.case_insensitive
                      THEN to_ascii_lowercase(transition.c) = to_ascii_lowercase(c)
                      ELSE transition.c = c
                 [] transition.k = "CharClass" ->
                      LET matched == \E i \in 1..Len(transition.items) :
                                         class_item_matches(transition.items[i], c)
                      IN  IF transition.negated THEN ~matched ELSE matched
                 [] transition.k = "Any" ->
                      IF mode_flags.dotall THEN TRUE ELSE c # "\n"
                 [] OTHER -> FALSE
    IN  IF hit THEN <<SimState(target, sim_state.groups)>> ELSE <<>>

\* chars a taken backreference consumes
backref_consumed(captured) == Max(ByteLen(captured), 1)

\* the Backref and BackrefRelative arms of step_with_backrefs for the group the
\* transition resolves to (None when it resolves to no group): the new states
\* and the chars consumed, 0 when the transition is not taken
backref_arm(inp, pos, sim_state, group, target) ==
    IF group = None \/ ~(group.some \in DOMAIN sim_state.groups)
    THEN [new |-> <<>>, consumed |-> 0]
    ELSE LET span == sim_state.groups[group.some]
             captured == Slice(inp, span[1], span[2])
             remaining == Slice(inp, pos, Len(inp))
         IN  IF starts_with(remaining, captured)
             THEN [new |-> <<SimState(target, sim_state.groups)>>,
                   consumed |-> backref_consumed(captured)]
             ELSE [new |-> <<>>, consumed |-> 0]

\* the two nested for loops of step_with_backrefs, from thread i, transition j on;
\* acc is [new_states, chars_consumed]
RECURSIVE step_loop(_, _, _, _, _, _, _, _)
step_loop(n, inp, states, c, pos, i, j, acc) ==
    IF i > Len(states) THEN acc
    ELSE LET sim_state == states[i]
             trs == n.states[sim_state.state_id + 1]
         IN  IF j > Len(trs) THEN step_loop(n, inp, states, c, pos, i + 1, 1, acc)
             ELSE LET transition == trs[j].tr
                      target == trs[j].to
                      acc2 ==
                        IF transition.k \in {"Backref", "BackrefRelative"}
                        THEN LET group == IF transition.k = "Backref"
                                          THEN [some |-> transition.n]
                                          ELSE resolve_relative(n, transition.n)
                                 arm == backref_arm(inp, pos, sim_state, group, target)
                             IN  [new_states |-> acc.new_states \o arm.new,
                                  chars_consumed |-> Max(acc.chars_consumed, arm.consumed)]
                        ELSE [acc EXCEPT !.new_states =
                                  @ \o try_transition(sim_state, transition, target, c)]
                  IN  step_loop(n, inp, states, c, pos, i, j + 1, acc2)

step_with_backrefs(n, inp, start_pos, states, c, pos) ==
    LET acc == step_loop(n, inp, states, c, pos, 1, 1,
                         [new_states |-> <<>>, chars_consumed |-> 1])
    IN  [states |-> epsilon_closure(n, inp, start_pos, acc.new_states,
                                    pos + acc.chars_consumed),
         chars_consumed |-> acc.chars_consumed]

\* NfaSimulator::find_accepting: Option of the capture map of the first
\* thread on the accept state
find_accepting(n, states) ==
    LET hits == {i \in 1..Len(states) : states[i].state_id = n.accept}
    IN  IF hits = {} THEN None
        ELSE [some |-> states[CHOOSE i \in hits : \A k \in hits : i <= k].groups]

\* last_accept after an accept check at pos
record_accept(n, states, pos, last_accept) ==
    LET found == find_accepting(n, states)
    IN  IF found = None THEN last_accept ELSE [some |-> [end |-> pos, groups |-> found.some]]

\* the Match built at the end of NfaSimulator::run
MakeMatch(start_pos, last_accept) ==
    IF last_accept = None THEN None
    ELSE [some |-> [start |-> start_pos, end |-> last_accept.some.end,
                    groups |-> last_accept.some.groups, named_groups |-> EmptyMap]]

\* NfaSimulator::run up to its while loop: the locals of run
run_init(n, inp, start_pos) ==
    LET states == epsilon_closure(n, inp, start_pos, <<SimStateNew(n.start)>>, start_pos)
    IN  [start_pos |-> start_pos, pos |-> start_pos, current_states |-> states,
         last_accept |-> record_accept(n, states, start_pos, None)]

\* the while loop of NfaSimulator::run keeping pos where it is
run_step_no_advance(n, inp, s) ==
    LET st == step_with_backrefs(n, inp, s.start_pos, s.current_states,
                                 inp[s.pos + 1], s.pos)
    IN  IF st.states = <<>>
        THEN [sim |-> [s EXCEPT !.current_states = st.states], broke |-> TRUE]
        ELSE [sim |-> [s EXCEPT !.current_states = st.states,
                                !.last_accept =
                                    record_accept(n, st.states, s.pos + st.chars_consumed, @)],
              broke |-> FALSE]

\* one iteration of the while loop of NfaSimulator::run; broke: it left by break
run_step(n, inp, s) ==
    LET st == step_with_backrefs(n, inp, s.start_pos, s.current_states,
                                 inp[s.pos + 1], s.pos)
    IN  IF st.states = <<>>
        THEN [sim |-> [s EXCEPT !.current_states = st.states], broke |-> TRUE]
        ELSE [sim |-> [s EXCEPT !.current_states = st.states,
                                !.pos = @ + st.chars_consumed,
                                !.last_accept =
                                    record_accept(n, st.states, s.pos + st.chars_consumed, @)],
              broke |-> FALSE]

\* NfaSimulator::run after its while loop
run_finish(n, inp, s) ==
    LET states == epsilon_closure(n, inp, s.start_pos, s.current_states, s.pos)
    IN  [s EXCEPT !.current_states = states,
                  !.last_accept = record_accept(n, states, s.pos, @)]

\* NfaSimulator::run as a whole, from the locals s on
RECURSIVE run_from(_, _, _)
run_from(n, inp, s) ==
    IF s.pos < Len(inp)
    THEN LET r == run_step(n, inp, s)
         IN  IF r.broke THEN run_finish(n, inp, r.sim) ELSE run_from(n, inp, r.sim)
    ELSE run_finish(n, inp, s)

\* Regex::match_from
match_from(n, inp, start) ==
    LET s == run_from(n, inp, run_init(n, inp, start))
    IN  MakeMatch(s.start_pos, s.last_accept)

\* Regex::find as a whole: the for loop from start on
RECURSIVE find_from(_, _, _)
find_from(n, inp, start) ==
    IF start > ByteLen(inp) THEN None
    ELSE LET m == match_from(n, inp, start)
         IN  IF m # None THEN m ELSE find_from(n, inp, start + 1)

find(n, inp) == find_from(n, inp, 0)

(***************************************************************************)
(* lexer.rs: Token and Lexer.  A &str is the sequence of its chars; the    *)
(* pattern texts of the model are ASCII, so byte and char offsets agree.   *)
(* Shorthand classes and word boundaries are lexed but the pattern texts   *)
(* of the model do not use them.                                           *)
(***************************************************************************)
Digits == <<"0", "1", "2", "3", "4", "5", "6", "7", "8", "9">>

\* char::is_ascii_digit
is_ascii_digit(c) == \E i \in 1..Len(Digits) : Digits[i] = c

\* char::to_digit(10) of an ASCII digit
to_digit(c) == (CHOOSE i \in 1..Len(Digits) : Digits[i] = c) - 1

\* char::is_alphabetic on the chars of the model
is_alphabetic(c) ==
    c \in {"a", "b", "c", "d", "e", "f", "g", "h", "i", "j", "k", "l", "m",
           "n", "o", "p", "q", "r", "s", "t", "u", "v", "w", "x", "y", "z",
           "A", "B", "D", "G", "S", "W"}

\* Lexer::is_identifier_char
is_identifier_char(c) == is_alphabetic(c) \/ is_ascii_digit(c) \/ c = "_"

Token(k) == [k |-> k]
TokLiteral(c) == [k |-> "Literal", c |-> c]
TokEscape(c) == [k |-> "Escape", c |-> c]
TokNamedGroupStart(name) == [k |-> "NamedGroupStart", name |-> name]
TokBackrefNumber(n) == [k |-> "BackrefNumber", n |-> n]
TokBackrefRelative(n) == [k |-> "BackrefRelative", n |-> n]
TokBackrefName(name) == [k |-> "BackrefName", name |-> name]

\* Lexer::advance
lexer_advance(lx) ==
    [lx EXCEPT !.current_char = IF lx.position < Len(lx.input)
                                THEN [some |-> lx.input[lx.position + 1]]
                                ELSE None,
               !.position = @ + 1]

\* Lexer::new
LexerNew(text) ==
    lexer_advance([input |-> text, position |-> 0, current_char |-> None,
                   in_char_class |-> FALSE])

\* a lexer after a call and the value the call returns
Lexed(lx, v) == [lx |-> lx, v |-> v]

\* the current char is c
AtChar(lx, c) == lx.current_char = [some |-> c]

\* &input[from..to] of the lexer, the empty string when the range is empty
InputSlice(lx, from, to) == SubSeq(lx.input, from + 1, to)

\* the while loops of read_identifier, read_escape and read_g_backref: advance
\* while the current char is of the kind asked for
RECURSIVE skip_while(_, _)
skip_while(lx, kind) ==
    IF lx.current_char = None THEN lx
    ELSE LET c == lx.current_char.some
             go == CASE kind = "identifier" -> is_identifier_char(c)
                     [] kind = "digit" -> is_ascii_digit(c)
                     [] kind = "braced" -> c # "}"
         IN  IF go THEN skip_while(lexer_advance(lx), kind) ELSE lx

\* Lexer::read_identifier
read_identifier(lx) ==
    LET start == lx.position - 1
        after == skip_while(lx, "identifier")
    IN  Lexed(after, InputSlice(after, start, after.position - 1))

\* num * 10 + digit in u32, computed on the two 16-bit halves of num (65536
\* is 2^16).  The result is the value when it fits in 32 bits.  When it does
\* not, a build with overflow checks panics and one without them goes on with
\* the value modulo 2^32: the result is then -(w + 1) for that value w, and
\* stays of this form over the digits that follow.
push_digit(num, digit) ==
    LET value == IF num < 0 THEN -num - 1 ELSE num
        low == ((value % 65536) * 10) + digit
        high == ((value \div 65536) * 10) + (low \div 65536)
        wrapped == ((high % 65536) * 65536) + (low % 65536)
    IN  IF num < 0 \/ high >= 65536 THEN -wrapped - 1 ELSE wrapped

\* a number read by push_digit has overflowed; its value modulo 2^32
num_overflowed(num) == num < 0
num_wrapped(num) == IF num < 0 THEN -num - 1 ELSE num

\* num = num * 10 + digit over the digits of chars, from num on
RECURSIVE accumulate_digits(_, _)
accumulate_digits(num, chars) ==
    IF chars = <<>> THEN num
    ELSE accumulate_digits(push_digit(num, to_digit(chars[1])), Tail(chars))

\* Lexer::read_escape, after the backslash
read_escape(lx) ==
    IF lx.current_char = None THEN Lexed(lx, TokEscape("\\0"))
    ELSE LET c == lx.current_char.some
             lx1 == lexer_advance(lx)
         IN  CASE c = "w" -> Lexed(lx1, Token("WordChar"))
               [] c = "W" -> Lexed(lx1, Token("NonWordChar"))
               [] c = "d" -> Lexed(lx1, Token("Digit"))
               [] c = "D" -> Lexed(lx1, Token("NonDigit"))
               [] c = "s" -> Lexed(lx1, Token("Whitespace"))
               [] c = "S" -> Lexed(lx1, Token("NonWhitespace"))
               [] c = "b" -> Lexed(lx1, Token("WordBoundary"))
               [] c = "B" -> Lexed(lx1, Token("NonWordBoundary"))
               [] OTHER ->
                    IF is_ascii_digit(c)
                    THEN LET after == skip_while(lx1, "digit")
                             more == InputSlice(after, lx1.position - 1, after.position - 1)
                         IN  Lexed(after, TokBackrefNumber(
                                       accumulate_digits(to_digit(c), more)))
                    ELSE Lexed(lx1, TokEscape(c))

\* str::parse::<i32>: an optional sign, then one or more digits, in range; a
\* run of up to 9 digits is always in range and the texts of the model hold no
\* longer one
parse_i32(chars) ==
    LET signed == chars # <<>> /\ chars[1] \in {"+", "-"}
        digits == IF signed THEN Tail(chars) ELSE chars
        value == accumulate_digits(0, digits)
    IN  IF /\ digits # <<>>
           /\ Len(digits) <= 9
           /\ \A i \in 1..Len(digits) : is_ascii_digit(digits[i])
        THEN [some |-> IF signed /\ chars[1] = "-" THEN -value ELSE value]
        ELSE None

\* str::strip_prefix('-')
strip_prefix_minus(chars) ==
    IF chars # <<>> /\ chars[1] = "-" THEN [some |-> Tail(chars)] ELSE None

\* Lexer::read_g_backref, after \g{
read_g_backref(lx) ==
    LET start == lx.position - 1
        at_end == skip_while(lx, "braced")
        content == InputSlice(at_end, start, at_end.position - 1)
        after == IF AtChar(at_end, "}") THEN lexer_advance(at_end) ELSE at_end
        stripped == strip_prefix_minus(content)
        n == IF stripped = None THEN None ELSE parse_i32(stripped.some)
    IN  IF n # None /\ n.some > 0
        THEN Lexed(after, TokBackrefRelative(-n.some))
        ELSE Lexed(after, TokBackrefName(content))

\* the '(' arm of Lexer::next_token
next_token_paren(lx) ==
    LET start_pos == lx.position
        lx1 == lexer_advance(lx)
        reset_after(l) == lexer_advance([l EXCEPT !.position = start_pos,
                                                  !.current_char = [some |-> "("]])
    IN  IF AtChar(lx1, "?")
        THEN LET lx2 == lexer_advance(lx1)
             IN  IF AtChar(lx2, ":")
                 THEN Lexed(lexer_advance(lx2), Token("NonCapturing"))
                 ELSE Lexed(reset_after(lx2), Token("LeftParen"))
        ELSE IF /\ lx1.current_char # None
                /\ (is_alphabetic(lx1.current_char.some) \/ lx1.current_char.some = "_")
             THEN LET id == read_identifier(lx1)
                  IN  IF AtChar(id.lx, ":")
                      THEN Lexed(lexer_advance(id.lx), TokNamedGroupStart(id.v))
                      ELSE Lexed(reset_after(id.lx), Token("LeftParen"))
             ELSE Lexed(reset_after(lx1), Token("LeftParen"))

\* Lexer::next_token
next_token(lx) ==
    IF lx.current_char = None THEN Lexed(lx, Token("Eof"))
    ELSE LET c == lx.current_char.some
             lx1 == lexer_advance(lx)
             class(flag) == [lx1 EXCEPT !.in_char_class = flag]
         IN  CASE c = "\\" ->
                    IF lx1.current_char = None THEN Lexed(lx1, TokEscape("\\0"))
                    ELSE IF AtChar(lx1, "g")
                         THEN LET lx2 == lexer_advance(lx1)
                              IN  IF AtChar(lx2, "{")
                                  THEN read_g_backref(lexer_advance(lx2))
                                  ELSE Lexed(lx2, TokEscape("g"))
                         ELSE read_escape(lx1)
               [] c = "(" -> next_token_paren(lx)
               [] c = ")" -> Lexed(class(FALSE), Token("RightParen"))
               [] c = "[" -> Lexed(class(TRUE), Token("LeftBracket"))
               [] c = "]" -> Lexed(class(FALSE), Token("RightBracket"))
               [] c = "{" -> Lexed(lx1, Token("LeftBrace"))
               [] c = "}" -> Lexed(lx1, Token("RightBrace"))
               [] c = ":" -> Lexed(lx1, Token("Colon"))
               [] c = "," -> Lexed(lx1, Token("Comma"))
               [] c = "|" -> Lexed(lx1, Token("Pipe"))
               [] c = "^" -> Lexed(lx1, Token("Caret"))
               [] c = "$" -> Lexed(lx1, Token("Dollar"))
               [] c = "." -> Lexed(lx1, Token("Dot"))
               [] c = "*" -> IF AtChar(lx1, "?")
                             THEN Lexed(lexer_advance(lx1), Token("StarLazy"))
                             ELSE Lexed(lx1, Token("Star"))
               [] c = "+" -> IF AtChar(lx1, "?")
                             THEN Lexed(lexer_advance(lx1), Token("PlusLazy"))
                             ELSE Lexed(lx1, Token("Plus"))
               [] c = "?" -> Lexed(lx1, Token("Question"))
               [] OTHER -> Lexed(lx1, TokLiteral(c))

\* Lexer::tokenize: the tokens next_token returns one after another, up to and
\* including the first Eof
RECURSIVE tokenize(_)
tokenize_push(next) ==
    IF next.v = Token("Eof") THEN <<next.v>> ELSE <<next.v>> \o tokenize(next.lx)

tokenize(lx) == tokenize_push(next_token(lx))

(***************************************************************************)
(* parser.rs: the recursive descent parser.  A Result is [ok |-> value] or *)
(* [err |-> error]; every parse function returns the parser after the     *)
(* call with its Result.                                                   *)
(***************************************************************************)
Shorthand(c) == [t |-> "Shorthand", c |-> c]
WordBoundary == [t |-> "WordBoundary"]
NonWordBoundary == [t |-> "NonWordBoundary"]

Ok(v) == [ok |-> v]
Err(e) == [err |-> e]
IsOk(r) == "ok" \in DOMAIN r
IsErr(r) == "err" \in DOMAIN r

\* ParseError::UnexpectedToken
UnexpectedToken(expected, found) ==
    [kind |-> "UnexpectedToken", expected |-> expected, found |-> found]

\* ParseError::UnexpectedEof
UnexpectedEof == [kind |-> "UnexpectedEof"]

Parsed(p, r) == [p |-> p, r |-> r]

\* Parser::new.  What next_token returns depends on the lexer alone, so the
\* lexer of a parser is held as the tokens it has yet to return.
ParserNew(text) ==
    LET tokens == tokenize(LexerNew(text))
    IN  [lexer |-> Tail(tokens), current_token |-> Head(tokens)]

\* Parser::advance; at the end of the input next_token returns Eof again
parser_advance(p) ==
    IF p.lexer = <<>> THEN [p EXCEPT !.current_token = Token("Eof")]
    ELSE [lexer |-> Tail(p.lexer), current_token |-> Head(p.lexer)]

\* Parser::expect
expect(p, expected) ==
    IF p.current_token = Token(expected)
    THEN Parsed(parser_advance(p), Ok(TRUE))
    ELSE Parsed(p, Err(UnexpectedToken(expected, p.current_token)))

\* Parser::is_sequence_end
is_sequence_end(p) ==
    p.current_token.k \in {"Eof", "RightParen", "RightBracket", "RightBrace", "Pipe"}

\* a Token::Literal of an ASCII digit
IsDigitToken(tok) == tok.k = "Literal" /\ is_ascii_digit(tok.c)

\* the while loop of Parser::parse_number
RECURSIVE parse_number_loop(_, _)
parse_number_loop(p, num) ==
    IF IsDigitToken(p.current_token)
    THEN parse_number_loop(parser_advance(p), push_digit(num, to_digit(p.current_token.c)))
    ELSE Parsed(p, Ok(num))

\* Parser::parse_number
parse_number(p) ==
    IF IsDigitToken(p.current_token)
    THEN parse_number_loop(parser_advance(p), to_digit(p.current_token.c))
    ELSE Parsed(p, Err(UnexpectedToken("number", p.current_token)))

\* the lazy modifier after a braced quantifier
lazy_form(quantifier) ==
    CASE quantifier.q = "AtLeast" -> AtLeastLazy(quantifier.n)
      [] quantifier.q = "Between" -> BetweenLazy(quantifier.n, quantifier.m)
      [] OTHER -> quantifier

\* the Token::LeftBrace arm of Parser::parse_quantifier, after the '{'
parse_braced_quantifier(p) ==
    LET min == parse_number(p)
    IN  IF IsErr(min.r) THEN min
        ELSE LET q == IF min.p.current_token.k = "Comma"
                      THEN LET p1 == parser_advance(min.p)
                           IN  IF p1.current_token.k = "RightBrace"
                               THEN Parsed(p1, Ok(AtLeast(min.r.ok)))
                               ELSE LET max == parse_number(p1)
                                    IN  IF IsErr(max.r) THEN max
                                        ELSE Parsed(max.p, Ok(Between(min.r.ok, max.r.ok)))
                      ELSE Parsed(min.p, Ok(Exactly(min.r.ok)))
             IN  IF IsErr(q.r) THEN q
                 ELSE LET closed == expect(q.p, "RightBrace")
                      IN  IF IsErr(closed.r) THEN closed
                          ELSE IF closed.p.current_token.k = "Question"
                               THEN Parsed(parser_advance(closed.p),
                                           Ok([some |-> lazy_form(q.r.ok)]))
                               ELSE Parsed(closed.p, Ok([some |-> q.r.ok]))

\* Parser::parse_quantifier: the Result of an Option<Quantifier>
parse_quantifier(p) ==
    LET k == p.current_token.k
        simple(q) == Parsed(parser_advance(p), Ok([some |-> q]))
    IN  CASE k = "Star" -> simple(ZeroOrMore)
          [] k = "StarLazy" -> simple(ZeroOrMoreLazy)
          [] k = "Plus" -> simple(OneOrMore)
          [] k = "PlusLazy" -> simple(OneOrMoreLazy)
          [] k = "Question" -> simple(Optional)
          [] k = "LeftBrace" -> parse_braced_quantifier(parser_advance(p))
          [] OTHER -> Parsed(p, Ok(None))

\* Parser::parse_class_item
parse_class_item(p) ==
    LET tok == p.current_token
        dash == parser_advance(p)
        range(after) ==
            IF after.current_token.k = "Literal"
            THEN Parsed(parser_advance(after),
                        Ok(ClassItemRange(tok.c, after.current_token.c)))
            ELSE Parsed(after, Ok(ClassItemChar(tok.c)))
        literal(next) ==
            IF next.current_token = TokLiteral("-")
            THEN range(parser_advance(next))
            ELSE Parsed(next, Ok(ClassItemChar(tok.c)))
    IN  CASE tok.k = "Literal" -> literal(dash)
          [] tok.k = "Escape" -> Parsed(dash, Ok(ClassItemShorthand(tok.c)))
          [] OTHER -> Parsed(p, Err(UnexpectedToken("character or escape", tok)))

\* the while loop of Parser::parse_char_class: the parser after it with the
\* items, or the error of an item
RECURSIVE parse_class_items(_, _)
parse_class_items(p, items) ==
    LET more(item) ==
          IF IsErr(item.r) THEN item
          ELSE parse_class_items(item.p, Append(items, item.r.ok))
    IN  IF p.current_token.k \in {"RightBracket", "Eof"} THEN Parsed(p, Ok(items))
        ELSE more(parse_class_item(p))

\* Parser::parse_char_class
parse_char_class(p) ==
    LET close(items, closed, negated) ==
          IF IsErr(closed.r) THEN closed
          ELSE Parsed(closed.p, Ok(CharacterClass(negated, items.r.ok)))
        finish(items, negated) ==
          IF IsErr(items.r) THEN items
          ELSE IF items.r.ok = <<>>
          THEN Parsed(items.p, Err(UnexpectedToken("character class item",
                                                   items.p.current_token)))
          ELSE close(items, expect(items.p, "RightBracket"), negated)
        body(opened) ==
          IF IsErr(opened.r) THEN opened
          ELSE IF opened.p.current_token = Token("Caret")
          THEN finish(parse_class_items(parser_advance(opened.p), <<>>), TRUE)
          ELSE finish(parse_class_items(opened.p, <<>>), FALSE)
    IN  body(expect(p, "LeftBracket"))

RECURSIVE parse_alternation(_)
RECURSIVE parse_alternation_loop(_, _)
RECURSIVE parse_sequence_loop(_, _)
RECURSIVE parse_sequence(_)
RECURSIVE parse_quantified(_)
RECURSIVE parse_atom(_)
RECURSIVE parse_group(_)
RECURSIVE parse_enclosed(_, _, _)

\* the while loop of Parser::parse_alternation
parse_alternation_loop(p, alternatives) ==
    LET push(next) ==
          IF IsErr(next.r) THEN next
          ELSE parse_alternation_loop(next.p, Append(alternatives, next.r.ok))
    IN  IF p.current_token.k = "Pipe"
        THEN push(parse_sequence(parser_advance(p)))
        ELSE Parsed(p, Ok(alternatives))

\* Parser::parse_alternation
parse_alternation(p) ==
    LET build(all) ==
          IF IsErr(all.r) THEN all
          ELSE IF Len(all.r.ok) = 1 THEN Parsed(all.p, Ok(all.r.ok[1]))
               ELSE Parsed(all.p, Ok(Alternation(all.r.ok)))
        rest(first) ==
          IF IsErr(first.r) THEN first
          ELSE build(parse_alternation_loop(first.p, <<first.r.ok>>))
    IN  rest(parse_sequence(p))

\* the while loop of Parser::parse_sequence
parse_sequence_loop(p, expressions) ==
    LET push(next) ==
          IF IsErr(next.r) THEN next
          ELSE parse_sequence_loop(next.p, Append(expressions, next.r.ok))
    IN  IF is_sequence_end(p) THEN Parsed(p, Ok(expressions))
        ELSE push(parse_quantified(p))

\* Parser::parse_sequence
parse_sequence(p) ==
    LET build(all) ==
          IF IsErr(all.r) THEN all
          ELSE CASE Len(all.r.ok) = 0 -> Parsed(all.p, Ok(Empty))
                 [] Len(all.r.ok) = 1 -> Parsed(all.p, Ok(all.r.ok[1]))
                 [] OTHER -> Parsed(all.p, Ok(Sequence(all.r.ok)))
    IN  build(parse_sequence_loop(p, <<>>))

\* Parser::parse_quantified
parse_quantified(p) ==
    LET build(atom, quantifier) ==
          IF IsErr(quantifier.r) THEN quantifier
          ELSE IF quantifier.r.ok # None
               THEN Parsed(quantifier.p,
                           Ok(Quantified(atom.r.ok, quantifier.r.ok.some)))
               ELSE Parsed(quantifier.p, Ok(atom.r.ok))
        rest(atom) ==
          IF IsErr(atom.r) THEN atom
          ELSE build(atom, parse_quantifier(atom.p))
    IN  rest(parse_atom(p))

\* the arms of parse_atom and parse_group that parse an alternation and, when
\* closing, expect the ')' after it; kind is the Expr variant to build
parse_enclosed(p, kind, closing) ==
    LET wrap(e) == CASE kind.t = "Group" -> Group(e)
                     [] kind.t = "NonCapturingGroup" -> NonCapturingGroup(e)
                     [] OTHER -> NamedGroup(kind.name, e)
        close(pattern, closed) ==
          IF IsErr(closed.r) THEN closed
          ELSE Parsed(closed.p, Ok(wrap(pattern.r.ok)))
        build(pattern) ==
          IF IsErr(pattern.r) THEN pattern
          ELSE IF closing THEN close(pattern, expect(pattern.p, "RightParen"))
               ELSE Parsed(pattern.p, Ok(wrap(pattern.r.ok)))
    IN  build(parse_alternation(p))

\* Parser::parse_atom
parse_atom(p) ==
    LET tok == p.current_token
        k == tok.k
        atom(e) == Parsed(parser_advance(p), Ok(e))
    IN  CASE k = "Literal" -> atom(Literal(tok.c))
          [] k = "Dot" -> atom(AnyExpr)
          [] k = "Caret" -> atom(StartAnchor)
          [] k = "Dollar" -> atom(EndAnchor)
          [] k = "Escape" -> atom(Literal(tok.c))
          [] k = "BackrefNumber" -> atom(Backreference(tok.n))
          [] k = "BackrefRelative" -> atom(RelativeBackreference(tok.n))
          [] k = "BackrefName" -> atom(NamedBackreference(tok.name))
          [] k = "WordChar" -> atom(Shorthand("w"))
          [] k = "NonWordChar" -> atom(Shorthand("W"))
          [] k = "Digit" -> atom(Shorthand("d"))
          [] k = "NonDigit" -> atom(Shorthand("D"))
          [] k = "Whitespace" -> atom(Shorthand("s"))
          [] k = "NonWhitespace" -> atom(Shorthand("S"))
          [] k = "WordBoundary" -> atom(WordBoundary)
          [] k = "NonWordBoundary" -> atom(NonWordBoundary)
          [] k = "LeftParen" -> parse_group(p)
          [] k = "LeftBracket" -> parse_char_class(p)
          [] k = "NamedGroupStart" ->
               parse_enclosed(parser_advance(p),
                              [t |-> "NamedGroup", name |-> tok.name], TRUE)
          [] k = "NonCapturing" ->
               parse_enclosed(parser_advance(p), [t |-> "NonCapturingGroup"], TRUE)
          [] k = "Eof" -> Parsed(p, Err(UnexpectedEof))
          [] OTHER -> Parsed(p, Err(UnexpectedToken("expression", tok)))

\* Parser::parse_group
parse_group(p) ==
    LET close(inner, closed) ==
          IF IsErr(closed.r) THEN closed ELSE Parsed(closed.p, inner.r)
        finish(inner) ==
          IF IsErr(inner.r) THEN inner
          ELSE close(inner, expect(inner.p, "RightParen"))
        body(opened, tok) ==
          IF IsErr(opened.r) THEN opened
          ELSE finish(CASE tok.k = "NamedGroupStart" ->
                             parse_enclosed(parser_advance(opened.p),
                                            [t |-> "NamedGroup", name |-> tok.name],
                                            FALSE)
                        [] tok.k = "NonCapturing" ->
                             parse_enclosed(parser_advance(opened.p),
                                            [t |-> "NonCapturingGroup"], FALSE)
                        [] OTHER -> parse_enclosed(opened.p, [t |-> "Group"], FALSE))
        open(opened) == body(opened, opened.p.current_token)
    IN  open(expect(p, "LeftParen"))

\* Parser::parse and parser::parse: the Result of the expression
parse(text) ==
    LET finish(expr) ==
          IF IsErr(expr.r) THEN expr.r
          ELSE IF expr.p.current_token.k # "Eof"
               THEN Err(UnexpectedToken("EOF", expr.p.current_token))
               ELSE expr.r
    IN  finish(parse_alternation(ParserNew(text)))

(***************************************************************************)
(* ast.rs and transpiler.rs: the AST written back as a string.             *)
(***************************************************************************)
\* Display of an unsigned integer
RECURSIVE DecimalString(_)
DecimalString(n) ==
    IF n < 10 THEN <<Digits[n + 1]>>
    ELSE DecimalString(n \div 10) \o <<Digits[(n % 10) + 1]>>

\* Display of an i32
SignedDecimalString(n) ==
    IF n < 0 THEN <<"-">> \o DecimalString(-n) ELSE DecimalString(n)

\* Quantifier::to_regex_string
quantifier_to_regex_string(quantifier) ==
    LET q == quantifier.q
        n == DecimalString(quantifier.n)
        m == DecimalString(quantifier.m)
    IN  CASE q = "ZeroOrMore" -> <<"*">>
          [] q = "ZeroOrMoreLazy" -> <<"*", "?">>
          [] q = "OneOrMore" -> <<"+">>
          [] q = "OneOrMoreLazy" -> <<"+", "?">>
          [] q = "Optional" -> <<"?">>
          [] q = "Exactly" -> <<"{">> \o n \o <<"}">>
          [] q = "AtLeast" -> <<"{">> \o n \o <<",", "}">>
          [] q = "AtLeastLazy" -> <<"{">> \o n \o <<",", "}", "?">>
          [] q = "Between" -> <<"{">> \o n \o <<",">> \o m \o <<"}">>
          [] q = "BetweenLazy" -> <<"{">> \o n \o <<",">> \o m \o <<"}", "?">>

RECURSIVE to_regex_string(_)
RECURSIVE join_regex_strings(_, _, _)

\* the strings of exprs[i..] joined by the separator
join_regex_strings(exprs, i, separator) ==
    IF i > Len(exprs) THEN <<>>
    ELSE to_regex_string(exprs[i])
         \o (IF i < Len(exprs) THEN separator ELSE <<>>)
         \o join_regex_strings(exprs, i + 1, separator)

\* CharacterClass::to_regex_string from the i-th item on
RECURSIVE class_items_string(_, _)
class_items_string(items, i) ==
    IF i > Len(items) THEN <<>>
    ELSE (CASE items[i].i = "Char" -> <<items[i].c>>
            [] items[i].i = "Range" -> <<items[i].c, "-", items[i].e>>
            [] items[i].i = "Shorthand" -> <<"\\", items[i].c>>)
         \o class_items_string(items, i + 1)

\* Expr::to_regex_string
to_regex_string(e) ==
    CASE e.t = "Empty" -> <<>>
      [] e.t = "Literal" -> <<e.c>>
      [] e.t = "Any" -> <<".">>
      [] e.t = "Sequence" -> join_regex_strings(e.exprs, 1, <<>>)
      [] e.t = "Alternation" -> join_regex_strings(e.exprs, 1, <<"|">>)
      [] e.t = "Quantified" ->
           (IF e.expr.t = "Alternation"
            THEN <<"(", "?", ":">> \o to_regex_string(e.expr) \o <<")">>
            ELSE to_regex_string(e.expr))
           \o quantifier_to_regex_string(e.quantifier)
      [] e.t = "Group" -> <<"(">> \o to_regex_string(e.expr) \o <<")">>
      [] e.t = "NonCapturingGroup" ->
           <<"(", "?", ":">> \o to_regex_string(e.expr) \o <<")">>
      [] e.t = "NamedGroup" ->
           <<"(", "?", "<">> \o e.name \o <<">">> \o to_regex_string(e.expr) \o <<")">>
      [] e.t = "StartAnchor" -> <<"^">>
      [] e.t = "EndAnchor" -> <<"$">>
      [] e.t = "Backreference" -> <<"\\">> \o DecimalString(e.n)
      [] e.t = "RelativeBackreference" ->
           <<"\\", "g", "{">> \o SignedDecimalString(e.n) \o <<"}">>
      [] e.t = "NamedBackreference" -> <<"\\", "g", "{">> \o e.name \o <<"}">>
      [] e.t = "Shorthand" -> <<"\\", e.c>>
      [] e.t = "CharacterClass" ->
           <<"[">> \o (IF e.negated THEN <<"^">> ELSE <<>>)
                  \o class_items_string(e.items, 1) \o <<"]">>
      [] e.t = "WordBoundary" -> <<"\\", "b">>
      [] e.t = "NonWordBoundary" -> <<"\\", "B">>

\* a number of e was read with an overflow: a numeric backreference or a bound
\* of a braced quantifier
RECURSIVE expr_overflowed(_)
expr_overflowed(e) ==
    CASE e.t = "Backreference" -> num_overflowed(e.n)
      [] e.t = "Quantified" ->
           \/ num_overflowed(e.quantifier.n)
           \/ num_overflowed(e.quantifier.m)
           \/ expr_overflowed(e.expr)
      [] e.t \in {"Group", "NonCapturingGroup", "NamedGroup"} -> expr_overflowed(e.expr)
      [] e.t \in {"Sequence", "Alternation"} ->
           \E i \in 1..Len(e.exprs) : expr_overflowed(e.exprs[i])
      [] OTHER -> FALSE

\* e as a build without overflow checks holds it: every number modulo 2^32
RECURSIVE expr_wrapped(_)
expr_wrapped(e) ==
    CASE e.t = "Backreference" -> [e EXCEPT !.n = num_wrapped(@)]
      [] e.t = "Quantified" ->
           [e EXCEPT !.quantifier.n = num_wrapped(@),
                     !.quantifier.m = num_wrapped(@),
                     !.expr = expr_wrapped(@)]
      [] e.t \in {"Group", "NonCapturingGroup", "NamedGroup"} ->
           [e EXCEPT !.expr = expr_wrapped(@)]
      [] e.t \in {"Sequence", "Alternation"} ->
           [e EXCEPT !.exprs = [i \in 1..Len(@) |-> expr_wrapped(@[i])]]
      [] OTHER -> e

\* transpiler::transpile after the parse, in a build without overflow checks
transpile_parsed(parsed) ==
    IF IsErr(parsed) THEN parsed ELSE Ok(to_regex_string(expr_wrapped(parsed.ok)))

\* transpiler::transpile
transpile(text) == transpile_parsed(parse(text))

(***************************************************************************)
(* The patterns and inputs the model runs on.  A pattern is the sequence   *)
(* of its chars.                                                           *)
(***************************************************************************)
a == Literal("a")
b == Literal("b")

\* runs of ten digits: 10^9, which fits in 32 bits, and 2^32, which does not
FitLongRun == <<"1", "0", "0", "0", "0", "0", "0", "0", "0", "0">>
OverLongRun == <<"4", "2", "9", "4", "9", "6", "7", "2", "9", "6">>

PatternTexts == <<
    <<>>,                                                         \* (empty pattern)
    <<"a">>,                                                      \* a
    <<"a", "b">>,                                                 \* ab
    <<"a", "|", "b">>,                                            \* a|b
    <<"a", "|", "a", "b">>,                                       \* a|ab
    <<".">>,                                                      \* .
    <<"a", "*">>,                                                 \* a*
    <<"a", "*", "?">>,                                            \* a*?
    <<"a", "+">>,                                                 \* a+
    <<"a", "+", "?">>,                                            \* a+?
    <<"a", "?">>,                                                 \* a?
    <<"a", "{", "2", "}">>,                                       \* a{2}
    <<"a", "{", "1", ",", "}">>,                                  \* a{1,}
    <<"a", "{", "1", ",", "}", "?">>,                             \* a{1,}?
    <<"a", "{", "1", ",", "2", "}">>,                             \* a{1,2}
    <<"a", "{", "1", ",", "2", "}", "?">>,                        \* a{1,2}?
    <<"^", "a">>,                                                 \* ^a
    <<"b", "$">>,                                                 \* b$
    <<"(", "a", ")", "(", "b", ")">>,                             \* (a)(b)
    <<"(", "?", ":", "a", ")", "(", "b", ")">>,                   \* (?:a)(b)
    <<"(", "(", "a", ")", "(", "b", ")", ")">>,                   \* ((a)(b))
    <<"(", "(", "a", ")", "|", "b", ")", "*">>,                   \* ((a)|b)*
    <<"(", "a", "+", ")", "+">>,                                  \* (a+)+
    <<"(", "a", "*", ")", "*">>,                                  \* (a*)*
    <<"(", "a", "|", "a", "b", ")", "(", "b", "|", ")">>,         \* (a|ab)(b|)
    <<"(", "a", ")", "{", "2", "}">>,                             \* (a){2}
    <<"(", "a", ")", "{", "1", ",", "2", "}">>,                   \* (a){1,2}
    <<"(", "x", ":", "a", ")">>,                                  \* (x:a)
    <<"(", "x", ":", "a", ")", "(", "b", ")">>,                   \* (x:a)(b)
    <<"(", "x", ":", "a", ")", "\\", "g", "{", "x", "}">>,        \* (x:a)\g{x}
    <<"(", "a", ")", "\\", "1">>,                                 \* (a)\1
    <<"(", "a", "?", ")", "\\", "1", "b">>,                       \* (a?)\1b
    <<"^", "(", "a", "?", ")", "\\", "1", "b">>,                  \* ^(a?)\1b
    <<"(", "a", ")", "(", "b", ")", "\\", "2">>,                  \* (a)(b)\2
    <<"(", "a", ")", "(", "b", ")", "\\", "g", "{", "-", "1", "}">>,\* (a)(b)\g{-1}
    <<"(", "a", ")", "(", "b", ")", "\\", "g", "{", "-", "2", "}">>,\* (a)(b)\g{-2}
    <<"(", "a", ")", "\\", "g", "{", "-", "1", "}", "(", "b", ")">>,\* (a)\g{-1}(b)
    <<"(", "a", ")", "(", "x", ":", "b", ")", "\\", "g", "{", "-", "1", "}">>,\* (a)(x:b)\g{-1}
    <<"(", "a", ")", "\\", "g", "{", "1", "}">>,                  \* (a)\g{1}
    <<"(", "x", ":", "a", ")", "(", "x", ":", "b", ")">>,         \* (x:a)(x:b)
    <<"a", "{", "2", ",", "1", "}">>,                             \* a{2,1}
    <<"\\", ".">>,                                                \* \.
    <<"(", "?", "<", "x", ">", "a", ")">>,                        \* (?<x>a)
    <<"(", "a">>,                                                 \* (a
    <<"a", "{", "0", "}">>,                                       \* a{0}
    <<"(", "?", ":", "(", "a", ")", "\\", "1", ")", "{", "1", "}">>,\* (?:(a)\1){1}
    <<"(", "a", "a", ")", "(", "?", ":", "\\", "1", "b", "|", "a", ")">>,\* (aa)(?:\1b|a)
    <<"(", ".", ")", "\\", "1">>,                                 \* (.)\1
    <<"[", "a", "-", "]">>,                                       \* [a-]
    <<"[", "-", "a", "]">>,                                       \* [-a]
    <<"[", "a", "-", "b", "]">>,                                  \* [a-b]
    <<"[", "^", "a", "-", "]">>,                                  \* [^a-]
    <<"\\">> \o FitLongRun,                                        \* \1000000000
    <<"\\">> \o OverLongRun,                                       \* \4294967296
    <<"a", "{">> \o OverLongRun \o <<"}">>                          \* a{4294967296}
>>

Alphabet == {"a", "b"}

\* inputs with a char of two bytes
MultiByteInputs == {<<"é">>, <<"é", "a">>, <<"é", "é">>}

\* an input long enough for a backreference to a capture of two chars
LongInputs == {<<"a", "a", "a", "a">>}

\* inputs with a dash
DashInputs == {<<"-">>, <<"b", "-">>}

Inputs == SeqsUpTo(Alphabet, MaxLen) \cup MultiByteInputs \cup LongInputs \cup DashInputs

(***************************************************************************)
(* Regex::new, Regex::find, Regex::find_all and NfaSimulator::run.         *)
(***************************************************************************)
NoSim == [none |-> TRUE]

\* the u32 subtraction m - n of compile_repeat_between(_lazy) overflows for a
\* quantifier of e: every quantifier of a pattern is compiled
RECURSIVE subtraction_overflows(_)
subtraction_overflows(e) ==
    CASE e.t = "Quantified" ->
           \/ /\ e.quantifier.q \in {"Between", "BetweenLazy"}
              /\ e.quantifier.m < e.quantifier.n
           \/ subtraction_overflows(e.expr)
      [] e.t \in {"Group", "NonCapturingGroup", "NamedGroup"} ->
           subtraction_overflows(e.expr)
      [] e.t \in {"Sequence", "Alternation"} ->
           \E i \in 1..Len(e.exprs) : subtraction_overflows(e.exprs[i])
      [] OTHER -> FALSE

\* Regex::new: parse, then Nfa::from_expr.  A parse error is returned.  When
\* m - n overflows the call returns nothing: a build with overflow checks
\* panics there, a build without them starts a loop of 2^32 - (n - m)
\* compilations that exhausts memory.
NewRegex ==
    /\ pc = "new"
    /\ \E i \in 1..Len(PatternTexts) :
         LET compiled(wrapped) ==
               /\ ast' = wrapped
               /\ IF subtraction_overflows(wrapped)
                  THEN /\ pc' \in {"panicked", "exhausted"}
                       /\ nfa' = NoNfa
                  ELSE /\ pc' = "ready"
                       /\ nfa' = from_expr(wrapped)
             new(parsed) ==
               IF IsErr(parsed)
               THEN /\ result' = parsed
                    /\ pc' = "failed"
                    /\ UNCHANGED <<ast, nfa>>
               ELSE /\ result' = None
                    /\ \/ /\ expr_overflowed(parsed.ok)
                          /\ pc' = "panicked"
                          /\ UNCHANGED <<ast, nfa>>
                       \/ compiled(expr_wrapped(parsed.ok))
         IN  /\ pattern_arg' = PatternTexts[i]
             /\ new(parse(PatternTexts[i]))
    /\ resolved' = None
    /\ UNCHANGED <<repl, input, op, scan, matches, sim, registry>>

\* transpiler::transpile is called
Transpile ==
    /\ pc = "new"
    /\ \E i \in 1..Len(PatternTexts) :
         /\ pattern_arg' = PatternTexts[i]
         /\ LET called(parsed) ==
                  \/ /\ IsOk(parsed)
                     /\ expr_overflowed(parsed.ok)
                     /\ pc' = "panicked"
                     /\ UNCHANGED result
                  \/ /\ result' = transpile_parsed(parsed)
                     /\ pc' = "transpiled"
            IN  called(parse(PatternTexts[i]))
    /\ UNCHANGED <<repl, nfa, ast, input, op, scan, matches, sim, registry, resolved>>

\* where a call goes after its loop header is evaluated with loop variable v:
\* both find and find_all loop while v <= input.len()
LoopHead(inp, v) == IF v <= ByteLen(inp) THEN "attempt" ELSE "done"

\* Regex::find is called: start = 0
Find ==
    /\ pc \in {"ready", "done"}
    /\ \E s \in Inputs : input' = s
    /\ op' = "find"
    /\ scan' = 0
    /\ matches' = <<>>
    /\ result' = None
    /\ sim' = NoSim
    /\ pc' = "attempt"
    /\ resolved' = None
    /\ UNCHANGED <<repl, pattern_arg, nfa, ast, registry>>

\* Regex::find_all is called: matches = Vec::new(), pos = 0
FindAll ==
    /\ pc \in {"ready", "done"}
    /\ \E s \in Inputs : input' = s
    /\ op' = "find_all"
    /\ scan' = 0
    /\ matches' = <<>>
    /\ result' = None
    /\ sim' = NoSim
    /\ pc' = "attempt"
    /\ resolved' = None
    /\ UNCHANGED <<repl, pattern_arg, nfa, ast, registry>>

\* match_from and the head of NfaSimulator::run, up to the while loop
RunInit ==
    /\ pc = "attempt"
    /\ sim' = run_init(nfa, input, scan)
    /\ pc' = "consume"
    /\ UNCHANGED <<repl, pattern_arg, nfa, ast, input, op, scan, matches, result, registry, resolved>>

\* one iteration of the while loop of NfaSimulator::run
RunStep ==
    /\ pc = "consume"
    /\ sim.pos < Len(input)
    /\ LET r == run_step(nfa, input, sim)
       IN  /\ sim' = r.sim
           /\ pc' = IF r.broke THEN "finish" ELSE "consume"
    /\ UNCHANGED <<repl, pattern_arg, nfa, ast, input, op, scan, matches, result, registry, resolved>>

\* the tail of NfaSimulator::run, after the while loop
RunFinish ==
    /\ \/ pc = "finish"
       \/ pc = "consume" /\ sim.pos >= Len(input)
    /\ sim' = run_finish(nfa, input, sim)
    /\ pc' = "returned"
    /\ UNCHANGED <<repl, pattern_arg, nfa, ast, input, op, scan, matches, result, registry, resolved>>

\* the value match_from returns
Returned == MakeMatch(sim.start_pos, sim.last_accept)

\* the body of the for loop of Regex::find after match_from returns
FindNext ==
    /\ pc = "returned"
    /\ op = "find"
    /\ IF Returned # None
       THEN /\ result' = Returned
            /\ pc' = "done"
            /\ scan' = scan
       ELSE /\ result' = None
            /\ scan' = scan + 1
            /\ pc' = LoopHead(input, scan + 1)
    /\ UNCHANGED <<repl, pattern_arg, nfa, ast, input, op, matches, sim, registry, resolved>>

\* find_all restarting one char after the start of the match it found
find_all_next_pos_overlapping(match_result) == match_result.start + 1

\* pos of find_all after a match
find_all_next_pos(match_result) == match_result.end

\* the body of the while loop of Regex::find_all after match_from returns
FindAllNext ==
    /\ pc = "returned"
    /\ op = "find_all"
    /\ Len(matches) < MaxMatches
    /\ IF Returned # None
       THEN /\ scan' = find_all_next_pos(Returned.some)
            /\ matches' = Append(matches, Returned.some)
            /\ pc' = LoopHead(input, find_all_next_pos(Returned.some))
       ELSE /\ scan' = scan + 1
            /\ matches' = matches
            /\ pc' = LoopHead(input, scan + 1)
    /\ UNCHANGED <<repl, pattern_arg, nfa, ast, input, op, result, sim, registry, resolved>>

\* Match::named_group
named_group(m, name) ==
    IF name \in DOMAIN m.named_groups THEN [some |-> m.named_groups[name]] ELSE None

\* the largest i32
I32Max == 2147483647

\* the relative indices resolved: the extremes the lexer can produce, and the
\* non-negative ones a caller can pass
Relatives == {-I32Max} \cup (-(MaxRegistered + 1)..1)

\* Nfa::resolve_relative is called on the compiled automaton
ResolveRelative ==
    /\ pc \in {"ready", "done"}
    /\ \E relative \in Relatives :
         resolved' = [some |-> [by |-> "nfa", relative |-> relative,
                                out |-> resolve_relative(nfa, relative)]]
    /\ UNCHANGED <<repl, pattern_arg, nfa, ast, input, op, pc, scan, matches, result, sim, registry>>

(***************************************************************************)
(* GroupRegistry.  Result<u32, GroupRegistryError> is [ok |-> index] or    *)
(* [err |-> <<variant, payload>>].                                         *)
(***************************************************************************)
GroupInfo(index, name) == [index |-> index, name |-> name, is_named |-> name # <<>>]

\* GroupRegistry::new
NewRegistry == [groups |-> <<>>, name_to_index |-> {}, numbered_groups |-> <<>>,
                next_index |-> 1]

\* register_group without its check for a name already in use
register_group_unchecked(reg, name) ==
    LET index == reg.next_index
        counted == [reg EXCEPT !.next_index = @ + 1]
    IN  [reg |-> [counted EXCEPT
                    !.name_to_index =
                        IF name # <<>> THEN NamedInsert(@, name[1], index) ELSE @,
                    !.numbered_groups =
                        IF name # <<>> THEN @ ELSE Append(@, index),
                    !.groups = Append(@, GroupInfo(index, name))],
         out |-> [ok |-> index]]

\* GroupRegistry::register_group, name the Option of a name: the registry
\* after the call and the value returned
register_group(reg, name) ==
    LET index == reg.next_index
        counted == [reg EXCEPT !.next_index = @ + 1]
    IN  IF name # <<>> /\ NamedHas(reg.name_to_index, name[1])
        THEN [reg |-> counted, out |-> [err |-> <<"DuplicateGroupName", name[1]>>]]
        ELSE [reg |-> [counted EXCEPT
                         !.name_to_index =
                             IF name # <<>> THEN NamedInsert(@, name[1], index) ELSE @,
                         !.numbered_groups =
                             IF name # <<>> THEN @ ELSE Append(@, index),
                         !.groups = Append(@, GroupInfo(index, name))],
              out |-> [ok |-> index]]

\* GroupRegistry::get_numbered_by_reverse_index
get_numbered_by_reverse_index(reg, reverse_index) ==
    IF reverse_index = 0 \/ reverse_index > Len(reg.numbered_groups)
    THEN [err |-> <<"InvalidRelativeBackreference", reverse_index>>]
    ELSE [ok |-> reg.numbered_groups[Len(reg.numbered_groups) - reverse_index + 1]]

\* GroupRegistry::resolve_relative_backreference
resolve_relative_backreference(reg, relative) ==
    IF relative >= 0
    THEN [err |-> <<"InvalidRelativeBackreference", relative>>]
    ELSE get_numbered_by_reverse_index(reg, -relative)

\* the names a caller registers groups under
GroupNames == {<<>>, <<"x">>, <<"y">>}

\* GroupRegistry::register_group is called
RegisterGroup ==
    /\ pc = "registry"
    /\ registry.next_index <= MaxRegistered
    /\ \E name \in GroupNames :
         LET r == register_group(registry, name)
         IN  /\ registry' = r.reg
             /\ result' = [some |-> r.out]
    /\ resolved' = None
    /\ UNCHANGED <<repl, pattern_arg, nfa, ast, input, op, pc, scan, matches, sim>>

\* GroupRegistry::resolve_relative_backreference is called
ResolveRelativeBackreference ==
    /\ pc = "registry"
    /\ \E relative \in Relatives :
         resolved' = [some |-> [by |-> "registry", relative |-> relative,
                                out |-> resolve_relative_backreference(registry, relative)]]
    /\ UNCHANGED <<repl, pattern_arg, nfa, ast, input, op, pc, scan, matches, result, sim, registry>>

(***************************************************************************)
(* replace.rs: Replacement.  A String is the sequence of its chars; a      *)
(* range of a &str counts bytes and panics off a char boundary.           *)
(***************************************************************************)
PartLiteral(chars) == [p |-> "Literal", chars |-> chars]
PartBackrefNumber(n) == [p |-> "BackrefNumber", n |-> n]
PartBackrefName(name) == [p |-> "BackrefName", name |-> name]
PartEntireMatch == [p |-> "EntireMatch"]

\* if !current_literal.is_empty() { parts.push(Literal(current_literal)) }
push_literal(parts, current_literal) ==
    IF current_literal = <<>> THEN parts ELSE Append(parts, PartLiteral(current_literal))

\* the position of the first char from i on that is not a digit
RECURSIVE digits_end(_, _)
digits_end(template, i) ==
    IF i <= Len(template) /\ is_ascii_digit(template[i])
    THEN digits_end(template, i + 1) ELSE i

\* Replacement::read_until: the position of the first delimiter from i on, or
\* one past the end
RECURSIVE read_until(_, _, _)
read_until(template, i, delimiter) ==
    IF i <= Len(template) /\ template[i] # delimiter
    THEN read_until(template, i + 1, delimiter) ELSE i

\* str::parse::<u32>: an optional plus sign, then one or more digits, in range;
\* a run of up to 9 digits is always in range and the templates of the model
\* hold no longer one
parse_u32(chars) ==
    LET digits == IF chars # <<>> /\ chars[1] = "+" THEN Tail(chars) ELSE chars
    IN  IF /\ digits # <<>>
           /\ Len(digits) <= 9
           /\ \A k \in 1..Len(digits) : is_ascii_digit(digits[k])
        THEN [some |-> accumulate_digits(0, digits)]
        ELSE None

\* the part a \g{name} stands for
braced_part(name) ==
    IF name = <<"0">> THEN PartEntireMatch
    ELSE IF parse_u32(name) # None THEN PartBackrefNumber(parse_u32(name).some)
    ELSE PartBackrefName(name)

\* the while loop of Replacement::parse from the i-th char on, and the push
\* of the last literal after it
RECURSIVE replacement_parse_loop(_, _, _, _)
replacement_parse_loop(template, i, parts, current_literal) ==
    IF i > Len(template) THEN push_literal(parts, current_literal)
    ELSE LET c == template[i]
         IN  IF c # "\\"
             THEN replacement_parse_loop(template, i + 1, parts, Append(current_literal, c))
             ELSE IF i = Len(template)
             THEN replacement_parse_loop(template, i + 1, parts, Append(current_literal, c))
             ELSE LET next == template[i + 1]
                      flushed == push_literal(parts, current_literal)
                  IN  CASE is_ascii_digit(next) ->
                             LET j == digits_end(template, i + 1)
                                 num == accumulate_digits(0, SubSeq(template, i + 1, j - 1))
                             IN  replacement_parse_loop(template, j,
                                     Append(flushed, PartBackrefNumber(num)), <<>>)
                        [] next = "g" ->
                             IF i + 2 <= Len(template) /\ template[i + 2] = "{"
                             THEN LET k == read_until(template, i + 3, "}")
                                      name == SubSeq(template, i + 3, k - 1)
                                      after == IF k <= Len(template) THEN k + 1 ELSE k
                                  IN  replacement_parse_loop(template, after,
                                          Append(flushed, braced_part(name)), <<>>)
                             ELSE replacement_parse_loop(template, i + 2, parts,
                                      current_literal \o <<c, next>>)
                        [] next = "G" ->
                             replacement_parse_loop(template, i + 2,
                                 Append(flushed, PartEntireMatch), <<>>)
                        [] OTHER ->
                             replacement_parse_loop(template, i + 2, parts,
                                 Append(current_literal, next))

\* Replacement::parse without the push of the last literal
replacement_parse_last_dropped(template) ==
    LET parts == replacement_parse_loop(template, 1, <<>>, <<>>)
    IN  IF parts # <<>> /\ parts[Len(parts)].p = "Literal"
        THEN Ok(Front(parts)) ELSE Ok(parts)

\* Replacement::parse: it returns Ok on every template
replacement_parse(template) == Ok(replacement_parse_loop(template, 1, <<>>, <<>>))

\* a number of the parts was read with an overflow
parts_overflowed(parts) ==
    \E i \in 1..Len(parts) : parts[i].p = "BackrefNumber" /\ num_overflowed(parts[i].n)

\* the parts as a build without overflow checks holds them
parts_wrapped(parts) ==
    [i \in 1..Len(parts) |->
        IF parts[i].p = "BackrefNumber" THEN [parts[i] EXCEPT !.n = num_wrapped(@)]
        ELSE parts[i]]

\* a panic of the running call
Panic == [panic |-> TRUE]

\* the byte offset is the start of a char of the string, or its end
is_char_boundary(chars, offset) ==
    \E k \in 0..Len(chars) : ByteLen(SubSeq(chars, 1, k)) = offset

\* &original[start..end]: the chars between two byte offsets; it panics when
\* start > end, when end is past the end and when an offset is inside a char
str_slice(chars, start, end) ==
    IF start <= end /\ is_char_boundary(chars, start) /\ is_char_boundary(chars, end)
    THEN Ok(SubSeq(chars,
                   (CHOOSE k \in 0..Len(chars) : ByteLen(SubSeq(chars, 1, k)) = start) + 1,
                   CHOOSE k \in 0..Len(chars) : ByteLen(SubSeq(chars, 1, k)) = end))
    ELSE Panic

\* Match::as_str of engine.rs: &input[self.start..self.end]
as_str(m, inp) == str_slice(inp, m.start, m.end)

\* Match::group
match_group(m, n) == IF n \in DOMAIN m.groups THEN [some |-> m.groups[n]] ELSE None

\* Match::group_str: group(n).map(|(start, end)| &input[start..end])
group_str(m, inp, n) ==
    IF match_group(m, n) = None THEN None
    ELSE [some |-> str_slice(inp, match_group(m, n).some[1], match_group(m, n).some[2])]

\* groups.get((n as usize).saturating_sub(1))
groups_get(groups, n) ==
    LET index == Max(n - 1, 0)
    IN  IF index < Len(groups) THEN [some |-> groups[index + 1]] ELSE None

\* result.push_str(&original[start..end])
push_slice(out, original, start, end) ==
    LET text == str_slice(original, start, end)
    IN  IF IsOk(text) THEN Ok(out.ok \o text.ok) ELSE Panic

\* result.push_str of the text of a group, nothing when there is none
push_group(out, original, group) ==
    IF group = None THEN out
    ELSE push_slice(out, original, group.some[1], group.some[2])

\* the for loop of Replacement::apply_with_names from the i-th part on
RECURSIVE apply_loop(_, _, _, _, _, _, _, _)
apply_loop(parts, i, out, original, match_start, match_end, groups, named_groups) ==
    IF i > Len(parts) \/ out = Panic THEN out
    ELSE LET part == parts[i]
             pushed ==
               CASE part.p = "Literal" -> Ok(out.ok \o part.chars)
                 [] part.p = "BackrefNumber" ->
                      IF part.n = 0
                      THEN push_slice(out, original, match_start, match_end)
                      ELSE push_group(out, original, groups_get(groups, part.n))
                 [] part.p = "BackrefName" ->
                      IF NamedHas(named_groups, part.name)
                      THEN push_group(out, original,
                                      groups_get(groups, NamedGet(named_groups, part.name)))
                      ELSE out
                 [] part.p = "EntireMatch" ->
                      push_slice(out, original, match_start, match_end)
         IN  apply_loop(parts, i + 1, pushed, original, match_start, match_end,
                        groups, named_groups)

\* Replacement::apply_with_names: Ok of the String it returns, or Panic
apply_with_names(parts, original, match_start, match_end, groups, named_groups) ==
    apply_loop(parts, 1, Ok(<<>>), original, match_start, match_end, groups, named_groups)

\* the templates the model parses
Templates == {
    <<>>,                                   \* (empty template)
    <<"a", "b">>,                           \* ab
    <<"é">>,                                \* é
    <<"\\", "1">>,                          \* \1
    <<"\\", "2", "-", "\\", "1">>,          \* \2-\1
    <<"\\", "0">>,                          \* \0
    <<"\\", "g", "{", "x", "}">>,           \* \g{x}
    <<"\\", "g", "{", "2", "}">>,           \* \g{2}
    <<"\\", "g", "{", "0", "}">>,           \* \g{0}
    <<"a", "\\", "G", "b">>,                \* a\Gb
    <<"\\", "g", "a">>,                     \* \ga
    <<"\\", "n", "\\">>,                    \* \n\
    <<"\\", "g", "{", "x">>,                \* \g{x
    <<"a", "\\", "g", "{">>,                \* a\g{
    <<"\\">> \o FitLongRun,                  \* \1000000000
    <<"\\">> \o OverLongRun                  \* \4294967296
}

\* the inputs a Replacement is applied to
Originals == {<<"a", "b">>, <<"é", "a">>}

\* the spans of a match and of its groups in an input, in chars as Match holds
\* them
Spans(original) == {sp \in (0..Len(original)) \X (0..Len(original)) : sp[1] <= sp[2]}

\* the mappings of names to group indices a caller supplies
NameMappings == {{}} \cup {{<<<<"x">>, g>>} : g \in 1..(MaxGroups + 1)}

\* Replacement::parse is called
ReplacementParse ==
    /\ pc = "template"
    /\ \E template \in Templates :
         LET parts == replacement_parse(template).ok
         IN  \/ /\ parts_overflowed(parts)
                /\ repl' = [template |-> template, parts |-> <<>>, args |-> None]
                /\ pc' = "parse_panicked"
             \/ /\ repl' = [template |-> template, parts |-> parts_wrapped(parts),
                             args |-> None]
                /\ pc' = "parsed"
    /\ UNCHANGED <<pattern_arg, nfa, ast, input, op, scan, matches, result, sim, registry,
                   resolved>>

\* Replacement::apply_with_names is called on the match of an input
ApplyWithNames ==
    /\ pc = "parsed"
    /\ \E original \in Originals :
         \E span \in Spans(original), groups \in SeqsUpTo(Spans(original), MaxGroups),
            named_groups \in NameMappings :
             LET out == apply_with_names(repl.parts, original, span[1], span[2],
                                         groups, named_groups)
             IN  /\ repl' = [repl EXCEPT !.args =
                                 [some |-> [original |-> original, match_start |-> span[1],
                                            match_end |-> span[2], groups |-> groups,
                                            named_groups |-> named_groups]]]
                 /\ result' = out
                 /\ pc' = IF out = Panic THEN "apply_panicked" ELSE "applied"
    /\ UNCHANGED <<pattern_arg, nfa, ast, input, op, scan, matches, sim, registry, resolved>>

\* a client drives a GroupRegistry, compiles and runs a Regex or transpiles a
\* pattern, or parses and applies a Replacement: the three share no state
Init ==
    /\ repl = None
    /\ pattern_arg = <<>>
    /\ nfa = NoNfa
    /\ ast = Empty
    /\ input = <<>>
    /\ op = "none"
    /\ pc \in {"new", "registry", "template"}
    /\ scan = 0
    /\ matches = <<>>
    /\ result = None
    /\ sim = NoSim
    /\ registry = NewRegistry
    /\ resolved = None

Next ==
    \/ NewRegex
    \/ Transpile
    \/ Find
    \/ FindAll
    \/ RunInit
    \/ RunStep
    \/ RunFinish
    \/ FindNext
    \/ FindAllNext
    \/ ResolveRelative
    \/ RegisterGroup
    \/ ResolveRelativeBackreference
    \/ ReplacementParse
    \/ ApplyWithNames

Spec == Init /\ [][Next]_vars

\* NfaSimulator::run has been called and has not returned
Running == pc \in {"attempt", "consume", "finish"}

\* NfaSimulator::run is straight-line code around one loop: once called it
\* keeps taking its next step.  This is WF_<<pc, sim>>(RunInit \/ RunStep \/
\* RunFinish) written out, Running being where one of the three is enabled.
FairSpec == Spec /\ ([]<>(~Running) \/ []<><<Running>>_<<pc, sim>>)

(***************************************************************************)
(* What a pattern accepts, read off the expression itself: the set of      *)
(* (end position, capture map) pairs of the ways expression e can match    *)
(* the input from a position on.  Groups are numbered by their opening     *)
(* parenthesis; before counts the capturing groups opened to the left of   *)
(* e.  This is the yardstick the claims about find are stated against.     *)
(***************************************************************************)
RECURSIVE GroupsOf(_)
RECURSIVE GroupsOfAll(_, _)

\* the capturing groups of e in the order of their opening parentheses, each as
\* the Option of its name
GroupsOf(e) ==
    CASE e.t = "Group" -> <<<<>>>> \o GroupsOf(e.expr)
      [] e.t = "NamedGroup" -> <<<<e.name>>>> \o GroupsOf(e.expr)
      [] e.t \in {"NonCapturingGroup", "Quantified"} -> GroupsOf(e.expr)
      [] e.t \in {"Sequence", "Alternation"} -> GroupsOfAll(e.exprs, 1)
      [] OTHER -> <<>>

GroupsOfAll(exprs, i) ==
    IF i > Len(exprs) THEN <<>> ELSE GroupsOf(exprs[i]) \o GroupsOfAll(exprs, i + 1)

CountGroups(e) == Len(GroupsOf(e))

\* the indices among 1..upto of the unnamed groups of a group list, in order
RECURSIVE UnnamedUpTo(_, _)
UnnamedUpTo(groups, upto) ==
    IF upto = 0 THEN <<>>
    ELSE UnnamedUpTo(groups, upto - 1) \o (IF groups[upto] = <<>> THEN <<upto>> ELSE <<>>)

RefCtx(pattern, inp) == [inp |-> inp, groups |-> GroupsOf(pattern)]

RefState(pos, caps) == [pos |-> pos, caps |-> caps]

\* the text of span sp occurs at pos
TextAt(inp, pos, sp) ==
    /\ pos + (sp[2] - sp[1]) <= Len(inp)
    /\ SubSeq(inp, pos + 1, pos + (sp[2] - sp[1])) = SubSeq(inp, sp[1] + 1, sp[2])

RefBackref(ctx, st, g) ==
    IF g \in DOMAIN st.caps /\ TextAt(ctx.inp, st.pos, st.caps[g])
    THEN {RefState(st.pos + (st.caps[g][2] - st.caps[g][1]), st.caps)}
    ELSE {}

RECURSIVE Ref(_, _, _, _)
RECURSIVE RefSeq(_, _, _, _, _)
RECURSIVE RefAlt(_, _, _, _, _)
RECURSIVE RefRepeat(_, _, _, _, _)
RECURSIVE RefStar(_, _, _, _, _)

\* every state of S continued by e
RefAll(e, before, ctx, S) == UNION {Ref(e, before, ctx, st) : st \in S}

\* exprs[i..] in sequence from the states S
RefSeq(exprs, i, before, ctx, S) ==
    IF i > Len(exprs) THEN S
    ELSE RefSeq(exprs, i + 1, before + CountGroups(exprs[i]), ctx,
                RefAll(exprs[i], before, ctx, S))

\* any of exprs[i..] from st
RefAlt(exprs, i, before, ctx, st) ==
    IF i > Len(exprs) THEN {}
    ELSE Ref(exprs[i], before, ctx, st)
         \cup RefAlt(exprs, i + 1, before + CountGroups(exprs[i]), ctx, st)

\* e exactly k times from the states S
RefRepeat(e, before, ctx, S, k) ==
    IF k = 0 THEN S ELSE RefRepeat(e, before, ctx, RefAll(e, before, ctx, S), k - 1)

\* e any number of times from the states reached: the least fixed point
RefStar(e, before, ctx, reached, frontier) ==
    IF frontier = {} THEN reached
    ELSE LET new == RefAll(e, before, ctx, frontier) \ reached
         IN  RefStar(e, before, ctx, reached \cup new, new)

Ref(e, before, ctx, st) ==
    CASE e.t = "Empty" -> {st}
      [] e.t = "Literal" ->
           IF st.pos < Len(ctx.inp) /\ ctx.inp[st.pos + 1] = e.c
           THEN {RefState(st.pos + 1, st.caps)} ELSE {}
      [] e.t = "Any" ->
           IF st.pos < Len(ctx.inp) /\ ctx.inp[st.pos + 1] # "\n"
           THEN {RefState(st.pos + 1, st.caps)} ELSE {}
      [] e.t = "CharacterClass" ->
           IF /\ st.pos < Len(ctx.inp)
              /\ e.negated # (\E i \in 1..Len(e.items) :
                                 class_item_matches(e.items[i], ctx.inp[st.pos + 1]))
           THEN {RefState(st.pos + 1, st.caps)} ELSE {}
      [] e.t = "Sequence" -> RefSeq(e.exprs, 1, before, ctx, {st})
      [] e.t = "Alternation" -> RefAlt(e.exprs, 1, before, ctx, st)
      [] e.t \in {"Group", "NamedGroup"} ->
           {RefState(t.pos, MapPut(t.caps, before + 1, <<st.pos, t.pos>>)) :
                t \in Ref(e.expr, before + 1, ctx, st)}
      [] e.t = "NonCapturingGroup" -> Ref(e.expr, before, ctx, st)
      [] e.t = "StartAnchor" -> IF st.pos = 0 THEN {st} ELSE {}
      [] e.t = "EndAnchor" -> IF st.pos = Len(ctx.inp) THEN {st} ELSE {}
      [] e.t = "Backreference" -> RefBackref(ctx, st, e.n)
      [] e.t = "RelativeBackreference" ->
           LET left == UnnamedUpTo(ctx.groups, before)
           IN  IF -e.n \in 1..Len(left)
               THEN RefBackref(ctx, st, left[Len(left) + e.n + 1])
               ELSE {}
      [] e.t = "NamedBackreference" ->
           LET named == {g \in 1..Len(ctx.groups) : ctx.groups[g] = <<e.name>>}
           IN  IF named = {} THEN {}
               ELSE RefBackref(ctx, st, CHOOSE g \in named : TRUE)
      [] e.t = "Quantified" ->
           LET q == e.quantifier.q
               once == Ref(e.expr, before, ctx, st)
               atleast == RefRepeat(e.expr, before, ctx, {st}, e.quantifier.n)
           IN  CASE q \in {"ZeroOrMore", "ZeroOrMoreLazy"} ->
                      RefStar(e.expr, before, ctx, {st}, {st})
                 [] q \in {"OneOrMore", "OneOrMoreLazy"} ->
                      RefStar(e.expr, before, ctx, once, once)
                 [] q = "Optional" -> {st} \cup once
                 [] q = "Exactly" -> atleast
                 [] q \in {"AtLeast", "AtLeastLazy"} ->
                      RefStar(e.expr, before, ctx, atleast, atleast)
                 [] q \in {"Between", "BetweenLazy"} ->
                      UNION {RefRepeat(e.expr, before, ctx, {st}, k) :
                                 k \in e.quantifier.n..e.quantifier.m}
      [] OTHER -> {}

\* the ways pattern matches inp from position k on
RefFrom(pattern, inp, k) == Ref(pattern, 0, RefCtx(pattern, inp), RefState(k, EmptyMap))

\* the ends e for which inp[k..e) is accepted by pattern
RefEnds(pattern, inp, k) == {t.pos : t \in RefFrom(pattern, inp, k)}

SetMax(S) == CHOOSE x \in S : \A y \in S : y <= x

\* relative backreferences rewritten as the numeric ones they stand for in a
\* pattern without named groups: \g{-k} becomes \(N+1-k), N the groups opened
\* to its left
RECURSIVE Numeric(_, _)
RECURSIVE NumericAll(_, _, _)
Numeric(e, before) ==
    CASE e.t = "RelativeBackreference" ->
           IF before + 1 + e.n >= 1 THEN Backreference(before + 1 + e.n) ELSE e
      [] e.t = "Group" -> [e EXCEPT !.expr = Numeric(@, before + 1)]
      [] e.t \in {"NonCapturingGroup", "Quantified"} ->
           [e EXCEPT !.expr = Numeric(@, before)]
      [] e.t \in {"Sequence", "Alternation"} ->
           [e EXCEPT !.exprs = NumericAll(@, 1, before)]
      [] OTHER -> e

NumericAll(exprs, i, before) ==
    IF i > Len(exprs) THEN <<>>
    ELSE <<Numeric(exprs[i], before)>>
         \o NumericAll(exprs, i + 1, before + CountGroups(exprs[i]))

HasNamedGroup(e) == \E g \in 1..CountGroups(e) : GroupsOf(e)[g] # <<>>

\* the indices of the unnamed capturing groups written in pattern e, in order
UnnamedGroups(e) == UnnamedUpTo(GroupsOf(e), CountGroups(e))

\* the index of the k-th most recent of the unnamed groups listed, as an Option
KthMostRecent(unnamed, k) ==
    IF k \in 1..Len(unnamed) THEN [some |-> unnamed[Len(unnamed) - k + 1]] ELSE None

\* the indices of the unnamed groups a registry holds, in order of registration
RECURSIVE UnnamedInfos(_)
UnnamedInfos(infos) ==
    IF infos = <<>> THEN <<>>
    ELSE (IF infos[1].is_named THEN <<>> ELSE <<infos[1].index>>)
         \o UnnamedInfos(Tail(infos))

\* Regex::find has returned
FindDone == pc = "done" /\ op = "find"

(***************************************************************************)
(* The claims.                                                             *)
(***************************************************************************)

\* C1: find returns None exactly when no substring of the input is accepted by
\* the pattern, and when it returns a match starting at k, no substring that
\* starts before k is accepted.
LeftmostMatch ==
    FindDone =>
        /\ (result = None) <=> (\A k \in 0..Len(input) : RefEnds(ast, input, k) = {})
        /\ result # None =>
               \A j \in 0..(result.some.start - 1) : RefEnds(ast, input, j) = {}

\* C2: the end of the match find returns at start k is the largest e such that
\* input[k..e) is accepted by the pattern, for greedy and lazy quantifiers alike.
LongestMatch ==
    (FindDone /\ result # None) =>
        LET ends == RefEnds(ast, input, result.some.start)
        IN  ends # {} /\ result.some.end = SetMax(ends)

\* C3: find_all makes progress: every turn of its loop moves the scan position
\* forward (by one codepoint after an empty match), so it terminates and never
\* returns the same empty match twice.
FindAllProgress ==
    [][(pc = "returned" /\ op = "find_all") =>
           /\ scan' > scan
           /\ \A i, j \in 1..Len(matches') :
                  (i < j /\ matches'[i].start = matches'[i].end) =>
                      matches'[i] # matches'[j]]_vars

\* C4: the matches find_all returns are ordered by start and do not overlap:
\* each match starts at or after the end of the match before it.
FindAllNonOverlap ==
    op = "find_all" =>
        \A i \in 1..(Len(matches) - 1) :
            /\ matches[i].start <= matches[i].end
            /\ matches[i].end <= matches[i + 1].start

\* find_all has returned two matches of one or more chars
FindAllTwoMatches ==
    /\ pc = "done"
    /\ op = "find_all"
    /\ Len(matches) = 2
    /\ \A i \in 1..2 : matches[i].start < matches[i].end
    /\ matches[1].end < matches[2].start

\* C5: a thread takes a numeric backreference to group k only if it captured
\* group k with span (s,e) and the input at pos equals input[s..e); taking it
\* advances the thread by exactly e-s codepoints, zero when the capture is empty.
BackrefAdvance ==
    (pc = "consume" /\ sim.pos < Len(input)) =>
        \A i \in 1..Len(sim.current_states) :
            LET sim_state == sim.current_states[i]
                trs == nfa.states[sim_state.state_id + 1]
            IN  \A j \in 1..Len(trs) :
                    trs[j].tr.k = "Backref" =>
                        LET k == trs[j].tr.n
                            arm == backref_arm(input, sim.pos, sim_state,
                                               [some |-> k], trs[j].to)
                        IN  arm.new # <<>> =>
                                /\ k \in DOMAIN sim_state.groups
                                /\ TextAt(input, sim.pos, sim_state.groups[k])
                                /\ arm.consumed =
                                       sim_state.groups[k][2] - sim_state.groups[k][1]

\* C6: the keys of Match.groups are indices of capturing groups written in the
\* pattern, counted by opening parenthesis: they lie in 1..number of capturing
\* groups, whatever quantifier is applied to a group.
GroupKeysInPattern ==
    (FindDone /\ result # None) =>
        DOMAIN result.some.groups \subseteq 1..CountGroups(ast)

\* C7: the capture map of the match find returns has an entry for exactly the
\* groups traversed on an accepting path over the matched text, each entry the
\* span of the group's last traversal on that path.
CapturesOnAcceptingPath ==
    (FindDone /\ result # None) =>
        \E t \in RefFrom(ast, input, result.some.start) :
            t.pos = result.some.end /\ t.caps = result.some.groups

\* C8: each named group traversed on the accepting path has an entry in
\* named_groups equal to the span stored under its index in groups, which
\* Match::named_group returns.
NamedGroupsFilled ==
    (FindDone /\ result # None) =>
        \A p \in nfa.named_groups :
            p[2] \in DOMAIN result.some.groups =>
                named_group(result.some, p[1]) = [some |-> result.some.groups[p[2]]]

\* C9: resolving the relative backreference -k, on a GroupRegistry and on an
\* Nfa, yields the index of the k-th most recent unnamed capturing group and
\* fails exactly when k < 1 or k exceeds the number of unnamed groups.
RelativeResolution ==
    resolved # None =>
        LET r == resolved.some
        IN  /\ r.by = "registry" =>
                LET want == KthMostRecent(UnnamedInfos(registry.groups), -r.relative)
                IN  IF want = None THEN "err" \in DOMAIN r.out
                    ELSE r.out = [ok |-> want.some]
            /\ r.by = "nfa" =>
                r.out = KthMostRecent(UnnamedGroups(ast), -r.relative)

\* C10: in a pattern without named groups a relative backreference \g{-k} gives
\* the same find result on every input as the numeric backreference \(N+1-k), N
\* the number of unnamed groups to its left.
RelativeEquivalence ==
    (FindDone /\ ~HasNamedGroup(ast)) =>
        result = find(from_expr(Numeric(ast, 0)), input)

\* the name is a positive decimal integer
IsPositiveDecimal(name) ==
    /\ name # <<>>
    /\ \A i \in 1..Len(name) : is_ascii_digit(name[i])
    /\ accumulate_digits(0, name) > 0

\* e holds a backreference \g{n}, n a positive decimal integer
RECURSIVE HasBracedNumber(_)
HasBracedNumber(e) ==
    CASE e.t = "NamedBackreference" -> IsPositiveDecimal(e.name)
      [] e.t \in {"Group", "NonCapturingGroup", "NamedGroup", "Quantified"} ->
           HasBracedNumber(e.expr)
      [] e.t \in {"Sequence", "Alternation"} ->
           \E i \in 1..Len(e.exprs) : HasBracedNumber(e.exprs[i])
      [] OTHER -> FALSE

\* the pattern written with \n for every \g{n}, n a positive decimal integer
RECURSIVE BracedAsNumeric(_)
BracedAsNumeric(e) ==
    CASE e.t = "NamedBackreference" ->
           IF IsPositiveDecimal(e.name)
           THEN Backreference(accumulate_digits(0, e.name)) ELSE e
      [] e.t \in {"Group", "NonCapturingGroup", "NamedGroup", "Quantified"} ->
           [e EXCEPT !.expr = BracedAsNumeric(@)]
      [] e.t \in {"Sequence", "Alternation"} ->
           [e EXCEPT !.exprs = [i \in 1..Len(@) |-> BracedAsNumeric(@[i])]]
      [] OTHER -> e

\* C11: a pattern using \g{n}, n a positive decimal integer, gives on every
\* input the find result of the same pattern written with \n.
BracedNumberEquivalence ==
    (FindDone /\ HasBracedNumber(ast)) =>
        result = find(from_expr(BracedAsNumeric(ast)), input)

\* find has returned for a pattern that uses \g{n} on an input the pattern
\* written with \n matches
BracedNumberUsed ==
    /\ FindDone
    /\ HasBracedNumber(ast)
    /\ find(from_expr(BracedAsNumeric(ast)), input) # None

\* the pattern accepts the string: a match from its start ends at its end
Accepts(e, s) ==
    LET m == match_from(from_expr(e), s, 0)
    IN  m # None /\ m.some.end = Len(s)

\* s is a concatenation of k strings each accepted by e
RECURSIVE ConcatenationOf(_, _, _)
ConcatenationOf(e, s, k) ==
    IF k = 0 THEN s = <<>>
    ELSE \E i \in 0..Len(s) :
             /\ Accepts(e, SubSeq(s, 1, i))
             /\ ConcatenationOf(e, SubSeq(s, i + 1, Len(s)), k - 1)

\* the pattern is E{n} or E{n,m}
IsCounted(e) ==
    e.t = "Quantified" /\ e.quantifier.q \in {"Exactly", "Between", "BetweenLazy"}

\* the numbers of repetitions a counted quantifier allows
Counts(quantifier) ==
    IF quantifier.q = "Exactly" THEN {quantifier.n} ELSE quantifier.n..quantifier.m

\* C12: E{0} accepts exactly the empty string, E{n} exactly the concatenations
\* of n strings accepted by E, and E{n,m} exactly the concatenations of k
\* strings accepted by E for some k with n <= k <= m.
CountedRepetition ==
    (FindDone /\ IsCounted(ast)) =>
        ((LET m == match_from(nfa, input, 0) IN m # None /\ m.some.end = Len(input))
            <=> \E k \in Counts(ast.quantifier) : ConcatenationOf(ast.expr, input, k))

\* find has returned for a pattern E{n} with n > 0 on an input that is a
\* concatenation of n strings accepted by E
CountedRepetitionUsed ==
    /\ FindDone
    /\ IsCounted(ast)
    /\ ast.quantifier.n > 0
    /\ \E k \in Counts(ast.quantifier) : ConcatenationOf(ast.expr, input, k)

\* no NFA state occurs twice in a list of threads
DistinctStates(states) ==
    \A i, j \in 1..Len(states) : i # j => states[i].state_id # states[j].state_id

\* C13: NfaSimulator::run terminates on every pattern and input, nested
\* quantifiers over expressions that match the empty string included: every
\* turn of its loop that does not leave it moves pos forward by one codepoint
\* or more, every epsilon closure holds each NFA state at most once, and a
\* run that was started returns.
RunTerminates ==
    /\ [][pc = "consume" =>
              /\ pc' \in {"consume", "finish", "returned"}
              /\ pc' = "consume" => sim'.pos >= sim.pos + 1
              /\ DistinctStates(sim'.current_states)]_vars
    /\ [](pc = "consume" => DistinctStates(sim.current_states))
    /\ (pc = "attempt" ~> pc = "returned")

\* the run of (a*)* has returned after two or more turns of its loop
NestedStarRunReturned ==
    /\ pc = "returned"
    /\ pattern_arg = <<"(", "a", "*", ")", "*">>
    /\ sim.start_pos = 0
    /\ sim.pos >= 2

\* transpile has returned
TranspileDone == pc = "transpiled"

\* C14: for every pattern that parses, transpile(pattern) is a pattern that
\* parses, and it parses to the expression the pattern parses to.
TranspileRoundTrip ==
    (TranspileDone /\ IsOk(parse(pattern_arg))) =>
        /\ IsOk(result)
        /\ parse(result.ok) = parse(pattern_arg)

\* transpile has returned the string of a pattern with a group in it
TranspiledGroup ==
    /\ TranspileDone
    /\ IsOk(result)
    /\ CountGroups(parse(pattern_arg).ok) > 0

\* Regex::new has just returned, or has failed to
RegexNewDone == pc \in {"ready", "failed", "panicked", "exhausted"}

\* two named groups of e carry the same name
HasDuplicateName(e) ==
    \E i, j \in 1..CountGroups(e) :
        i < j /\ GroupsOf(e)[i] # <<>> /\ GroupsOf(e)[i] = GroupsOf(e)[j]

\* C15: Regex::new on a pattern in which two named groups carry the same name
\* returns a duplicate-group-name error and produces no compiled Regex.
DuplicateNameRejected ==
    (RegexNewDone /\ IsOk(parse(pattern_arg)) /\ HasDuplicateName(parse(pattern_arg).ok)) =>
        /\ pc = "failed"
        /\ IsErr(result)
        /\ result.err.kind = "DuplicateGroupName"
        /\ nfa = NoNfa

\* Regex::new has returned for a pattern with two groups named alike
DuplicateNameCompiled ==
    /\ RegexNewDone
    /\ IsOk(parse(pattern_arg))
    /\ HasDuplicateName(parse(pattern_arg).ok)

\* the chars of the text from position i to position j are one or more digits
DigitsAt(text, i, j) ==
    i <= j /\ \A k \in i..j : is_ascii_digit(text[k])

\* the text holds a braced quantifier {n,m} with m < n
HasInvertedBounds(text) ==
    \E i, c, j \in 1..Len(text) :
        /\ text[i] = "{" /\ text[c] = "," /\ text[j] = "}"
        /\ DigitsAt(text, i + 1, c - 1)
        /\ DigitsAt(text, c + 1, j - 1)
        /\ accumulate_digits(0, SubSeq(text, c + 1, j - 1))
               < accumulate_digits(0, SubSeq(text, i + 1, c - 1))

\* Regex::new has been called on a pattern with a braced quantifier {n,m}, m < n
InvertedBoundsGiven == RegexNewDone /\ HasInvertedBounds(pattern_arg)

\* C16: Regex::new on a pattern with a braced quantifier {n,m} whose upper bound
\* m is smaller than its lower bound n returns an invalid-quantifier error and
\* produces no compiled Regex.
InvertedBoundsRejected ==
    InvertedBoundsGiven =>
        /\ pc = "failed"
        /\ IsErr(result)
        /\ result.err.kind = "InvalidQuantifier"
        /\ nfa = NoNfa

\* C17: after any sequence of register_group calls, successful or failing, the
\* i-th entry of groups() has index i: the indices are 1..group_count in the
\* order of declaration.
GroupIndicesDense ==
    pc = "registry" =>
        \A i \in 1..Len(registry.groups) : registry.groups[i].index = i

\* a registration has failed and a later one has succeeded
RegisteredAfterFailure ==
    /\ pc = "registry"
    /\ Len(registry.groups) >= 2
    /\ registry.next_index > Len(registry.groups) + 1
    /\ registry.groups[Len(registry.groups)].index = registry.next_index - 1

\* the indices of the groups of a registry that are named, and all of them
NamedIndices(reg) == {reg.groups[i].index : i \in {k \in 1..Len(reg.groups) : reg.groups[k].is_named}}
AllIndices(reg) == {reg.groups[i].index : i \in 1..Len(reg.groups)}

\* C18: name_to_index maps every registered name to exactly one group and
\* distinct names to distinct groups, and its groups are exactly the is_named
\* ones; numbered_groups lists exactly the indices of the unnamed groups, in
\* increasing order; every group is in exactly one of the two subsets.
RegistryPartition ==
    pc = "registry" =>
        LET reg == registry
            numbered == {reg.numbered_groups[i] : i \in 1..Len(reg.numbered_groups)}
        IN  /\ \A p, q \in reg.name_to_index : (p[1] = q[1] \/ p[2] = q[2]) => p = q
            /\ {p[2] : p \in reg.name_to_index} = NamedIndices(reg)
            /\ \A i \in 1..Len(reg.groups) :
                   reg.groups[i].is_named =>
                       /\ reg.groups[i].name # <<>>
                       /\ <<reg.groups[i].name[1], reg.groups[i].index>> \in reg.name_to_index
            /\ reg.numbered_groups = UnnamedInfos(reg.groups)
            /\ \A i \in 1..(Len(reg.numbered_groups) - 1) :
                   reg.numbered_groups[i] < reg.numbered_groups[i + 1]
            /\ numbered \cap NamedIndices(reg) = {}
            /\ numbered \cup NamedIndices(reg) = AllIndices(reg)

\* a registry holds a named and an unnamed group after a registration under a
\* name in use has failed
MixedRegistryAfterDuplicate ==
    /\ pc = "registry"
    /\ result # None
    /\ "err" \in DOMAIN result.some
    /\ registry.name_to_index # {}
    /\ registry.numbered_groups # <<>>

\* Replacement::apply_with_names has been called
ApplyDone == pc \in {"applied", "apply_panicked"}

\* the text of a span of the input, the span in chars as Match holds it
SpanText(original, span) == SubSeq(original, span[1] + 1, span[2])

\* the text of the n-th entry of the group list, nothing when there is none
EntryText(args, n) ==
    IF n \in 1..Len(args.groups) THEN SpanText(args.original, args.groups[n]) ELSE <<>>

\* what a part stands for in an application
PartText(part, args) ==
    CASE part.p = "Literal" -> part.chars
      [] part.p = "BackrefNumber" -> EntryText(args, part.n)
      [] part.p = "BackrefName" ->
           IF \E m \in args.named_groups : m[1] = part.name
           THEN EntryText(args, (CHOOSE m \in args.named_groups : m[1] = part.name)[2])
           ELSE <<>>
      [] part.p = "EntireMatch" ->
           SpanText(args.original, <<args.match_start, args.match_end>>)

RECURSIVE PartsText(_, _, _)
PartsText(parts, i, args) ==
    IF i > Len(parts) THEN <<>>
    ELSE PartText(parts[i], args) \o PartsText(parts, i + 1, args)

\* C19: apply_with_names returns, and the string it returns holds for each part
\* in turn: a literal verbatim; for a numeric token n the text of the n-th
\* entry of the group list, nothing when there is no such entry; for a named
\* token the text of the group its name is mapped to, nothing when it is not
\* mapped; for a whole-match token the text of the match span.
ApplyEmitsParts ==
    ApplyDone => result = Ok(PartsText(repl.parts, 1, repl.args.some))

\* a replacement with a token in it has been applied to a match with groups
TokenApplied ==
    /\ pc = "applied"
    /\ \E i \in 1..Len(repl.parts) : repl.parts[i].p \in {"BackrefNumber", "BackrefName"}
    /\ repl.args.some.groups # <<>>
    /\ result # Ok(<<>>)

\* the template holds no backslash
LiteralOnly(template) == \A i \in 1..Len(template) : template[i] # "\\"

\* C20: a template of literal chars only, without a backslash, parses to a
\* replacement whose application returns the template unchanged, whatever the
\* input, the match span and the group list.
LiteralTemplateUnchanged ==
    (ApplyDone /\ LiteralOnly(repl.template)) => result = Ok(repl.template)

\* a template of two literal chars has been applied to a match with groups
LiteralTemplateApplied ==
    /\ pc = "applied"
    /\ repl.template = <<"a", "b">>
    /\ repl.args.some.groups # <<>>
    /\ result = Ok(<<"a", "b">>)

\* Replacement::parse has returned
ReplacementParsed == pc \in {"parsed", "applied", "apply_panicked"}

\* the only backslash of the template opens a \g{ and no } follows it
UnclosedOpener(template) ==
    \E i \in 1..(Len(template) - 2) :
        /\ template[i] = "\\" /\ template[i + 1] = "g" /\ template[i + 2] = "{"
        /\ \A j \in 1..Len(template) : j # i => template[j] # "\\"
        /\ \A j \in (i + 3)..Len(template) : template[j] # "}"

\* C21: a template whose \g{ is never closed parses, no backreference part is
\* produced for the opener (every part is a literal), and applying the
\* replacement returns the chars of the template, the opener among them.
UnclosedOpenerLiteral ==
    (ReplacementParsed /\ UnclosedOpener(repl.template)) =>
        /\ \A i \in 1..Len(repl.parts) : repl.parts[i].p = "Literal"
        /\ pc = "applied" => result = Ok(repl.template)

\* a template with an unclosed \g{ has been parsed and applied
UnclosedOpenerApplied ==
    /\ pc = "applied"
    /\ repl.template = <<"a", "\\", "g", "{">>
    /\ repl.args.some.original = <<"a", "b">>

\* the matches a finished call returned
ReturnedMatches ==
    IF pc # "done" THEN {}
    ELSE IF op = "find" THEN (IF result = None THEN {} ELSE {result.some})
    ELSE {matches[i] : i \in 1..Len(matches)}

\* the codepoints from..to of the input
Codepoints(inp, from, to) == SubSeq(inp, from + 1, to)

\* C22: start, end and every group span of a returned Match are codepoint
\* offsets into the input, and as_str and group_str return exactly the
\* codepoints start..end of the input, also when the input holds a char of
\* more than one byte.
CodepointOffsets ==
    \A m \in ReturnedMatches :
        /\ m.start <= m.end /\ m.end <= Len(input)
        /\ as_str(m, input) = Ok(Codepoints(input, m.start, m.end))
        /\ \A n \in DOMAIN m.groups :
               /\ m.groups[n][1] <= m.groups[n][2] /\ m.groups[n][2] <= Len(input)
               /\ group_str(m, input, n) =
                      [some |-> Ok(Codepoints(input, m.groups[n][1], m.groups[n][2]))]

\* find has returned a match with a group on an input with a two-byte char
MultiByteMatchReturned ==
    /\ FindDone
    /\ input \in MultiByteInputs
    /\ result # None
    /\ result.some.start < result.some.end
    /\ DOMAIN result.some.groups # {}

\* the threads of the running attempt that stand on the target of a transition
\* of the kind
ThreadsBehind(kind) ==
    IF sim = NoSim THEN {}
    ELSE {i \in 1..Len(sim.current_states) :
            \E from \in 1..Len(nfa.states) : \E j \in 1..Len(nfa.states[from]) :
                /\ nfa.states[from][j].tr.k = kind
                /\ nfa.states[from][j].to = sim.current_states[i].state_id}

\* the pattern is ^P
LeadingStartAnchor(e) ==
    \/ e.t = "StartAnchor"
    \/ e.t = "Sequence" /\ e.exprs[1].t = "StartAnchor"

\* the pattern is P$
TrailingEndAnchor(e) ==
    \/ e.t = "EndAnchor"
    \/ e.t = "Sequence" /\ e.exprs[Len(e.exprs)].t = "EndAnchor"

\* the matches returned so far by the call
MatchesSoFar ==
    IF op = "find_all" THEN {matches[i] : i \in 1..Len(matches)}
    ELSE IF op = "find" /\ pc = "done" /\ result # None THEN {result.some}
    ELSE {}

\* C23: with no mode flag set, a thread is past a start anchor only at position
\* 0 of an attempt that started at position 0 and past an end anchor only at
\* position len(input); so every match of ^P starts at 0, in the later attempts
\* of find and find_all too, and every match of P$ ends at the end of the input.
AnchorsGuarded ==
    /\ ThreadsBehind("StartAnchor") # {} => sim.start_pos = 0 /\ sim.pos = 0
    /\ ThreadsBehind("EndAnchor") # {} => sim.pos = Len(input)
    /\ \A m \in MatchesSoFar :
           /\ LeadingStartAnchor(ast) => m.start = 0
           /\ TrailingEndAnchor(ast) => m.end = Len(input)

\* find_all has gone through its later attempts on ^a and returned one match
AnchoredFindAllDone ==
    /\ pc = "done"
    /\ op = "find_all"
    /\ LeadingStartAnchor(ast)
    /\ input = <<"a", "a">>
    /\ Len(matches) = 1

\* the advance of each thread step_with_backrefs pushes on new_states, in the
\* order of new_states: 1 for a char transition, the chars consumed for a
\* backreference
RECURSIVE StepAdvances(_, _, _, _, _, _, _)
StepAdvances(n, inp, states, c, pos, i, j) ==
    IF i > Len(states) THEN <<>>
    ELSE LET sim_state == states[i]
             trs == n.states[sim_state.state_id + 1]
         IN  IF j > Len(trs) THEN StepAdvances(n, inp, states, c, pos, i + 1, 1)
             ELSE LET transition == trs[j].tr
                      group == IF transition.k = "Backref" THEN [some |-> transition.n]
                               ELSE resolve_relative(n, transition.n)
                      here ==
                        IF transition.k \in {"Backref", "BackrefRelative"}
                        THEN LET arm == backref_arm(inp, pos, sim_state, group, trs[j].to)
                             IN  IF arm.new = <<>> THEN <<>> ELSE <<arm.consumed>>
                        ELSE IF try_transition(sim_state, transition, trs[j].to, c) = <<>>
                             THEN <<>> ELSE <<1>>
                  IN  here \o StepAdvances(n, inp, states, c, pos, i, j + 1)

\* the threads pushed in the step from the locals s, each with its advance
SteppedThreads(s) ==
    LET acc == step_loop(nfa, input, s.current_states, input[s.pos + 1], s.pos, 1, 1,
                         [new_states |-> <<>>, chars_consumed |-> 1])
        advances == StepAdvances(nfa, input, s.current_states, input[s.pos + 1], s.pos, 1, 1)
    IN  {[thread |-> acc.new_states[i], advance |-> advances[i]] :
            i \in 1..Len(acc.new_states)}

\* C24: when the threads of a step advance by different numbers of codepoints,
\* the threads whose advance differs from the step size are discarded: every
\* thread in the list after the step has advanced by exactly the step size, so
\* it has consumed the input from the start of the attempt to the new position.
AdvancesReconciled ==
    [][(pc = "consume" /\ pc' = "consume") =>
           \A t \in SteppedThreads(sim) :
               (\E k \in 1..Len(sim'.current_states) : sim'.current_states[k] = t.thread)
                   => t.advance = sim'.pos - sim.pos]_vars

\* a step in which one thread advanced by one char and another by two
MixedAdvanceStepped ==
    /\ pc = "consume"
    /\ pattern_arg = <<"(", "a", "a", ")", "(", "?", ":", "\\", "1", "b", "|", "a", ")">>
    /\ input = <<"a", "a", "a", "a">>
    /\ sim.start_pos = 0
    /\ sim.pos = 4
    /\ Len(sim.current_states) > 1

\* the closure in priority order: the input threads in their order, each
\* followed by the targets of its transitions in the order of the transitions,
\* a state reached again being left to the thread that reached it first
RECURSIVE PriorityVisit(_, _, _, _, _, _)
RECURSIVE PriorityTargets(_, _, _, _, _, _, _)
PriorityVisit(n, inp, start_pos, pos, closure, thread) ==
    IF thread.state_id \in StateIds(closure) THEN closure
    ELSE PriorityTargets(n, inp, start_pos, pos, Append(closure, thread), thread, 1)

PriorityTargets(n, inp, start_pos, pos, closure, thread, i) ==
    LET trs == n.states[thread.state_id + 1]
    IN  IF i > Len(trs) THEN closure
        ELSE LET pushed == closure_push(inp, start_pos, pos, thread, trs[i].tr, trs[i].to)
                 after(visited) ==
                     PriorityTargets(n, inp, start_pos, pos, visited, thread, i + 1)
             IN  IF pushed = <<>> THEN after(closure)
                 ELSE after(PriorityVisit(n, inp, start_pos, pos, closure, pushed[1]))

RECURSIVE PriorityClosureFrom(_, _, _, _, _, _, _)
PriorityClosureFrom(n, inp, start_pos, pos, closure, states, i) ==
    IF i > Len(states) THEN closure
    ELSE PriorityClosureFrom(n, inp, start_pos, pos,
                             PriorityVisit(n, inp, start_pos, pos, closure, states[i]),
                             states, i + 1)

PriorityClosure(n, inp, start_pos, states, pos) ==
    PriorityClosureFrom(n, inp, start_pos, pos, <<>>, states, 1)

\* the threads a closure of the step from the locals s starts from
SteppedStates(s) ==
    step_loop(nfa, input, s.current_states, input[s.pos + 1], s.pos, 1, 1,
              [new_states |-> <<>>, chars_consumed |-> 1]).new_states

\* the list epsilon_closure returns is the closure in priority order, at the
\* start of an attempt and after every step
ClosureInPriorityOrder ==
    [][/\ (pc = "attempt" /\ pc' = "consume") =>
              sim'.current_states =
                  PriorityClosure(nfa, input, scan, <<SimStateNew(nfa.start)>>, scan)
       /\ (pc = "consume" /\ pc' = "consume") =>
              sim'.current_states =
                  PriorityClosure(nfa, input, sim.start_pos, SteppedStates(sim), sim'.pos)]_vars

\* the threads of a list
ThreadSet(states) == {states[i] : i \in 1..Len(states)}

\* C25: epsilon_closure produces its threads in priority order, the targets
\* of a state's transitions in the order in which the transitions were added
\* and the input threads in their order, so at the start of an attempt and
\* after every step the thread (and capture map) kept for a state two paths
\* reach is the one of the earlier, preferred path.
KeptThreadsPreferred ==
    [][/\ (pc = "attempt" /\ pc' = "consume") =>
              ThreadSet(sim'.current_states) =
                  ThreadSet(PriorityClosure(nfa, input, scan, <<SimStateNew(nfa.start)>>, scan))
       /\ (pc = "consume" /\ pc' = "consume") =>
              ThreadSet(sim'.current_states) =
                  ThreadSet(PriorityClosure(nfa, input, sim.start_pos, SteppedStates(sim),
                                        sim'.pos))]_vars

\* a closure over a state with two epsilon transitions has been computed
AlternativesClosed ==
    /\ pc = "consume"
    /\ \E i \in 1..Len(sim.current_states) :
           LET trs == nfa.states[sim.current_states[i].state_id + 1]
           IN  /\ Len(trs) > 1
               /\ \A j \in 1..Len(trs) : trs[j].tr.k = "Epsilon"

\* C26: after every epsilon_closure the thread list holds at most one thread
\* per NFA state id, each of them a state of the NFA, so at no point of a match
\* attempt are there more live threads than NFA states.
OneThreadPerState ==
    sim # NoSim =>
        /\ DistinctStates(sim.current_states)
        /\ StateIds(sim.current_states) \subseteq 0..(Len(nfa.states) - 1)
        /\ Len(sim.current_states) <= Len(nfa.states)

\* a closure has been computed in which two threads lead to one state
TwoPathsClosed ==
    /\ pc = "consume"
    /\ sim.pos > sim.start_pos
    /\ \E i, j, k \in 1..Len(sim.current_states) :
           /\ i # j
           /\ \E x \in 1..Len(nfa.states[sim.current_states[i].state_id + 1]) :
                  LET t == nfa.states[sim.current_states[i].state_id + 1][x]
                  IN  /\ t.to = sim.current_states[k].state_id
                      /\ closure_push(input, sim.start_pos, sim.pos,
                                      sim.current_states[i], t.tr, t.to) # <<>>
           /\ \E y \in 1..Len(nfa.states[sim.current_states[j].state_id + 1]) :
                  LET t == nfa.states[sim.current_states[j].state_id + 1][y]
                  IN  /\ t.to = sim.current_states[k].state_id
                      /\ closure_push(input, sim.start_pos, sim.pos,
                                      sim.current_states[j], t.tr, t.to) # <<>>

\* C27: every Match find or find_all returns has start <= end <= len(input),
\* and every span (s, e) of its capture map has start <= s <= e <= end.
MatchWithinInput ==
    \A m \in ReturnedMatches :
        /\ m.start <= m.end
        /\ m.end <= Len(input)
        /\ \A g \in DOMAIN m.groups :
               /\ m.start <= m.groups[g][1]
               /\ m.groups[g][1] <= m.groups[g][2]
               /\ m.groups[g][2] <= m.end

\* a match made by a backreference to a captured char of two bytes has been
\* returned
MultiByteBackrefMatched ==
    /\ pattern_arg = <<"(", ".", ")", "\\", "1">>
    /\ input = <<"é", "é">>
    /\ ReturnedMatches # {}

\* the step is a register_group call that fails
RegistrationFails ==
    /\ pc = "registry"
    /\ registry' # registry \/ result' # result
    /\ result' # None
    /\ "err" \in DOMAIN result'.some

\* C28: a register_group call that fails with DuplicateGroupName leaves groups,
\* name_to_index and numbered_groups as they were, and the next registration,
\* whatever its name, gets the index it would have got without the failing
\* call.
FailedRegistrationLeavesRegistry ==
    [][RegistrationFails =>
           /\ result'.some.err[1] = "DuplicateGroupName"
           /\ registry'.groups = registry.groups
           /\ registry'.name_to_index = registry.name_to_index
           /\ registry'.numbered_groups = registry.numbered_groups
           /\ \A name \in GroupNames :
                  register_group(registry', name).out = register_group(registry, name).out]_vars

\* a registration has just failed on a name already in use
RegistrationFailed ==
    /\ pc = "registry"
    /\ result # None
    /\ "err" \in DOMAIN result.some
    /\ registry.next_index > Len(registry.groups) + 1

\* the patterns [a-] and [-a]
DashClasses == {<<"[", "a", "-", "]">>, <<"[", "-", "a", "]">>}

\* the first codepoint of inp in chars, as the Option of the Match of it
FirstOf(inp, chars) ==
    LET at == {i \in 1..Len(inp) : inp[i] \in chars}
    IN  IF at = {} THEN None
        ELSE LET i == CHOOSE k \in at : \A l \in at : k <= l
             IN  [some |-> [start |-> i - 1, end |-> i, groups |-> EmptyMap,
                            named_groups |-> EmptyMap]]

\* C29: in a character class a '-' that forms no range between two literal
\* chars is a member of the class, wherever it stands: [a-] and [-a] match the
\* chars 'a' and '-' and no other, so find returns the first of them.
DashIsMember ==
    (pc = "done" /\ op = "find" /\ pattern_arg \in DashClasses) =>
        result = FirstOf(input, {"a", "-"})

\* find with [a-] or [-a] is done on an input with a dash
DashClassSearched ==
    /\ pc = "done"
    /\ op = "find"
    /\ pattern_arg \in DashClasses
    /\ \E i \in 1..Len(input) : input[i] = "-"

\* the decimal value of a run of digits none of whose prefixes is 2^31 or more
RECURSIVE DecimalValue(_)
DecimalValue(digits) ==
    IF digits = <<>> THEN 0
    ELSE DecimalValue(Front(digits)) * 10 + to_digit(Last(digits))

\* the runs of digits of the texts of the model that fit in 32 unsigned bits,
\* and those that do not
LongRuns == {FitLongRun, OverLongRun}
FitsU32(digits) == digits # OverLongRun

\* Replacement::parse or Regex::new has been called on a text with a run of
\* ten digits and has returned or panicked
TemplateRunRead(digits) ==
    /\ pc \in {"parsed", "parse_panicked"}
    /\ repl.template = <<"\\">> \o digits

BackrefRunRead(digits) ==
    /\ pc \in {"ready", "failed", "panicked", "exhausted"}
    /\ pattern_arg = <<"\\">> \o digits

BoundRunRead(digits) ==
    /\ pc \in {"ready", "failed", "panicked", "exhausted"}
    /\ pattern_arg = <<"a", "{">> \o digits \o <<"}">>

\* C30: reading a run of decimal digits never overflows, in a numeric
\* backreference of a pattern, a bound of a braced quantifier or a numeric
\* token of a replacement template: a run that fits in 32 unsigned bits gives
\* its decimal value, and one that does not is reported as an error, never
\* wrapped around and never a crash.
DigitRunsNeverOverflow ==
    \A digits \in LongRuns :
        /\ TemplateRunRead(digits) =>
               /\ FitsU32(digits)
               /\ pc = "parsed"
               /\ repl.parts = <<PartBackrefNumber(DecimalValue(digits))>>
        /\ BackrefRunRead(digits) =>
               IF FitsU32(digits)
               THEN pc = "ready" /\ ast = Backreference(DecimalValue(digits))
               ELSE pc = "failed"
        /\ BoundRunRead(digits) =>
               IF FitsU32(digits)
               THEN pc = "ready" /\ ast = Quantified(a, Exactly(DecimalValue(digits)))
               ELSE pc = "failed"

\* a run of ten digits that does not fit in 32 bits has been read
OverLongRunRead ==
    \/ TemplateRunRead(OverLongRun)
    \/ BackrefRunRead(OverLongRun)
    \/ BoundRunRead(OverLongRun)

====
